---------------------------- MODULE Spec2Model ----------------------------
(***************************************************************************)
(* Model of the webhook gateway's payment callback handler                 *)
(* (package midtrans, Handler.HandleTransactionUpdate) together with the   *)
(* collaborators it calls: the provider status lookup, the task service    *)
(* (GetOrderTask / UpdateOrderTask) and the order service (Get).           *)
(*                                                                         *)
(* Strings that the code transforms (strings.ToLower, concatenation for    *)
(* the signature) are sequences of one-character strings; strings that are *)
(* only compared for equality are TLA+ strings.                            *)
(*                                                                         *)
(* The handler is a sequence of steps, one per external call, so that the  *)
(* position of a request between two calls is a state of the model.  The   *)
(* r.Method check of lines 169-172 only logs and is left out.              *)
(*                                                                         *)
(* The module also models the delivery callback handler (package mileapp,  *)
(* MileappHandlers.HandleStatusUpdate) and the task service it calls, the  *)
(* inventory callback handlers (package shoptree, Handler.HandleStockUpdate*)
(* and Handler.HandleProductStatusUpdate) with the inventory service they  *)
(* call, and the start and graceful shutdown of the server in main.        *)
(*                                                                         *)
(* Specifications:                                                         *)
(*   Spec            payment notifications served one after the other      *)
(*   SpecDeadline    the same, with the deadline of the request's context  *)
(*   SpecConcurrent  two payment notifications in flight together          *)
(*   SpecMileapp     delivery callbacks served one after the other         *)
(*   SpecShoptree    inventory callbacks served one after the other        *)
(*   SpecMain        the process from ListenAndServe to its exit           *)
(***************************************************************************)
EXTENDS Integers, Sequences, FiniteSets, TLC

VARIABLES
    tasks,       \* task service: the task list GetOrderTask returns for KnownTaskID
    orderState,  \* order service: the state of the order KnownOrderID
    pc,          \* per request: position of the handler
    req,         \* per request: the HTTP request (header + decoded body)
    trx,         \* per request: the authoritative transaction (line 215)
    orderTask,   \* per request: the resolved task (lines 234-240)
    resp,        \* per request: status code written by writeJSONResponse, 0 = none yet
    calls,       \* per request: the external calls made so far, in order
    taskAtReceipt, \* per request (history): state of the payment task when the request arrived
    written,     \* per request: the responses written to the http.ResponseWriter, in order
    checks,      \* per request: the local checks the handler has run, in order
    expired,     \* per request: the deadline of the request's context has elapsed
    elapsedAt    \* per request (history): the number of the call that was in flight
                 \* when the deadline elapsed, 0 while it has not

midtransVars ==
    <<tasks, orderState, pc, req, trx, orderTask, resp, calls, taskAtReceipt,
      written, checks, expired, elapsedAt>>

\* package mileapp, MileappHandlers.HandleStatusUpdate: one request at a time
VARIABLES
    mTasks,      \* task service: the task list GetOrderTask returns for KnownOrderNumber
    mPc,         \* position of the handler
    mReq,        \* the HTTP request (URL variable, method, headers, decoded body)
    mOrderTask,  \* the matched task (lines 94-100)
    mWritten,    \* the responses written by responseJSON, in order
    mCalls,      \* the calls made to the task service so far, in order
    mPrev        \* the callback served just before, when it passed the checks

mileappVars == <<mTasks, mPc, mReq, mOrderTask, mWritten, mCalls, mPrev>>

\* package shoptree, Handler.HandleStockUpdate and HandleProductStatusUpdate:
\* one request at a time
VARIABLES
    sPc,         \* position of the handler
    sReq,        \* the HTTP request (handler addressed, method, headers, decoded array)
    sIdx,        \* the element of the array the loop is at
    sWritten,    \* the responses written by responseJSON, in order
    sCalls       \* the calls made to the inventory service so far, in order

shoptreeVars == <<sPc, sReq, sIdx, sWritten, sCalls>>

\* main: the process, its two goroutines and the HTTP server
VARIABLES
    mainPc,          \* position of main: "listen", "wait", "returned", "fatal"
    sigPc,           \* position of the signal goroutine: "sigint", "shutdown",
                     \* "closing", "closed", "finished", "fatal"
    active,          \* the connections that are serving a request
    elapsed,         \* seconds since srv.Shutdown was called
    idleConnsClosed, \* whether the channel idleConnsClosed has been closed
    lasErr,          \* what srv.ListenAndServe returned, "none" while it has not
    shutdownErr      \* what srv.Shutdown returned, "none" while it has not

mainVars == <<mainPc, sigPc, active, elapsed, idleConnsClosed, lasErr, shutdownErr>>

vars == <<midtransVars, mileappVars, shoptreeVars, mainVars>>

(***************************************************************************)
(* Bounds of the model.                                                    *)
(***************************************************************************)
\* how many tasks of another type may precede the payment task in a task list
MaxOtherTasks == 1

(***************************************************************************)
(* Program constants.                                                      *)
(***************************************************************************)
StatusOK == 200
StatusBadRequest == 400
StatusInternalServerError == 500

Nil == "nil"
ErrContenTypeIsRequired == "content type is required"
ErrInvalidContentType == "content type should be application/json"
ErrInvalidSignature == "invalid signature"
ErrUnsupportedPaymentMethod == "unsupported payment method"
ErrInternalServerError == "internal server error"

PendingTransactionStatus == <<"p","e","n","d","i","n","g">>
AuthorizedTransactionStatus == <<"a","u","t","h","o","r","i","z","e","d">>
CaptureTransactionStatus == <<"c","a","p","t","u","r","e">>
SettlementTransactionStatus == <<"s","e","t","t","l","e","m","e","n","t">>
DenyTransactionStatus == <<"d","e","n","y">>
CancelTransactionStatus == <<"c","a","n","c","e","l">>
RefundTransactionStatus == <<"r","e","f","u","n","d">>
ExpireTransactionStatus == <<"e","x","p","i","r","e">>
FailureTransactionStatus == <<"f","a","i","l","u","r","e">>
FraudStatusAccept == <<"a","c","c","e","p","t">>

ORDER_TASK_TYPE_PAYMENT == "ORDER_TASK_TYPE_PAYMENT"
ORDER_TASK_TYPE_DELIVERY == "ORDER_TASK_TYPE_DELIVERY"
ORDER_TASK_TYPE_UNSPECIFIED == "ORDER_TASK_TYPE_UNSPECIFIED"

ORDER_TASK_STATE_UNSPECIFIED == "ORDER_TASK_STATE_UNSPECIFIED"
ORDER_TASK_STATE_ONGOING == "ORDER_TASK_STATE_ONGOING"
ORDER_TASK_STATE_SUCCESS == "ORDER_TASK_STATE_SUCCESS"
ORDER_TASK_STATE_FAILED == "ORDER_TASK_STATE_FAILED"

ORDER_STATE_UNSPECIFIED == "ORDER_STATE_UNSPECIFIED"
ORDER_STATE_PENDING == "ORDER_STATE_PENDING"
ORDER_STATE_PAID == "ORDER_STATE_PAID"
ORDER_STATE_CANCELLED == "ORDER_STATE_CANCELLED"
ORDER_STATE_DONE == "ORDER_STATE_DONE"

\* payment.PaymentMethod_Gopay, payment.PaymentMethod_VirtualAccount
PaymentMethod_Gopay == "gopay"
PaymentMethod_VirtualAccount == "bank_transfer"

\* the handler's configuration (NewHandler)
serverKey == <<"k","e","y">>

(***************************************************************************)
(* strings.ToLower on sequences of characters.                             *)
(***************************************************************************)
\* A character is a one-character string when it is ASCII, and the name of
\* its code point ("U+0130") when it is not.  UpperCase lists the characters
\* that unicode.ToLower changes (Unicode 13.0.0, the tables of go 1.18),
\* LowerCase what it changes them to, place by place: the first 26 places
\* are the ASCII letters.
UpperCase == <<
    "A","B","C","D","E","F","G","H","I","J","K","L","M",
    "N","O","P","Q","R","S","T","U","V","W","X","Y","Z",
    "U+00C0","U+00C1","U+00C2","U+00C3","U+00C4","U+00C5","U+00C6","U+00C7",
    "U+00C8","U+00C9","U+00CA","U+00CB","U+00CC","U+00CD","U+00CE","U+00CF",
    "U+00D0","U+00D1","U+00D2","U+00D3","U+00D4","U+00D5","U+00D6","U+00D8",
    "U+00D9","U+00DA","U+00DB","U+00DC","U+00DD","U+00DE","U+0100","U+0102",
    "U+0104","U+0106","U+0108","U+010A","U+010C","U+010E","U+0110","U+0112",
    "U+0114","U+0116","U+0118","U+011A","U+011C","U+011E","U+0120","U+0122",
    "U+0124","U+0126","U+0128","U+012A","U+012C","U+012E","U+0130","U+0132",
    "U+0134","U+0136","U+0139","U+013B","U+013D","U+013F","U+0141","U+0143",
    "U+0145","U+0147","U+014A","U+014C","U+014E","U+0150","U+0152","U+0154",
    "U+0156","U+0158","U+015A","U+015C","U+015E","U+0160","U+0162","U+0164",
    "U+0166","U+0168","U+016A","U+016C","U+016E","U+0170","U+0172","U+0174",
    "U+0176","U+0178","U+0179","U+017B","U+017D","U+0181","U+0182","U+0184",
    "U+0186","U+0187","U+0189","U+018A","U+018B","U+018E","U+018F","U+0190",
    "U+0191","U+0193","U+0194","U+0196","U+0197","U+0198","U+019C","U+019D",
    "U+019F","U+01A0","U+01A2","U+01A4","U+01A6","U+01A7","U+01A9","U+01AC",
    "U+01AE","U+01AF","U+01B1","U+01B2","U+01B3","U+01B5","U+01B7","U+01B8",
    "U+01BC","U+01C4","U+01C5","U+01C7","U+01C8","U+01CA","U+01CB","U+01CD",
    "U+01CF","U+01D1","U+01D3","U+01D5","U+01D7","U+01D9","U+01DB","U+01DE",
    "U+01E0","U+01E2","U+01E4","U+01E6","U+01E8","U+01EA","U+01EC","U+01EE",
    "U+01F1","U+01F2","U+01F4","U+01F6","U+01F7","U+01F8","U+01FA","U+01FC",
    "U+01FE","U+0200","U+0202","U+0204","U+0206","U+0208","U+020A","U+020C",
    "U+020E","U+0210","U+0212","U+0214","U+0216","U+0218","U+021A","U+021C",
    "U+021E","U+0220","U+0222","U+0224","U+0226","U+0228","U+022A","U+022C",
    "U+022E","U+0230","U+0232","U+023A","U+023B","U+023D","U+023E","U+0241",
    "U+0243","U+0244","U+0245","U+0246","U+0248","U+024A","U+024C","U+024E",
    "U+0370","U+0372","U+0376","U+037F","U+0386","U+0388","U+0389","U+038A",
    "U+038C","U+038E","U+038F","U+0391","U+0392","U+0393","U+0394","U+0395",
    "U+0396","U+0397","U+0398","U+0399","U+039A","U+039B","U+039C","U+039D",
    "U+039E","U+039F","U+03A0","U+03A1","U+03A3","U+03A4","U+03A5","U+03A6",
    "U+03A7","U+03A8","U+03A9","U+03AA","U+03AB","U+03CF","U+03D8","U+03DA",
    "U+03DC","U+03DE","U+03E0","U+03E2","U+03E4","U+03E6","U+03E8","U+03EA",
    "U+03EC","U+03EE","U+03F4","U+03F7","U+03F9","U+03FA","U+03FD","U+03FE",
    "U+03FF","U+0400","U+0401","U+0402","U+0403","U+0404","U+0405","U+0406",
    "U+0407","U+0408","U+0409","U+040A","U+040B","U+040C","U+040D","U+040E",
    "U+040F","U+0410","U+0411","U+0412","U+0413","U+0414","U+0415","U+0416",
    "U+0417","U+0418","U+0419","U+041A","U+041B","U+041C","U+041D","U+041E",
    "U+041F","U+0420","U+0421","U+0422","U+0423","U+0424","U+0425","U+0426",
    "U+0427","U+0428","U+0429","U+042A","U+042B","U+042C","U+042D","U+042E",
    "U+042F","U+0460","U+0462","U+0464","U+0466","U+0468","U+046A","U+046C",
    "U+046E","U+0470","U+0472","U+0474","U+0476","U+0478","U+047A","U+047C",
    "U+047E","U+0480","U+048A","U+048C","U+048E","U+0490","U+0492","U+0494",
    "U+0496","U+0498","U+049A","U+049C","U+049E","U+04A0","U+04A2","U+04A4",
    "U+04A6","U+04A8","U+04AA","U+04AC","U+04AE","U+04B0","U+04B2","U+04B4",
    "U+04B6","U+04B8","U+04BA","U+04BC","U+04BE","U+04C0","U+04C1","U+04C3",
    "U+04C5","U+04C7","U+04C9","U+04CB","U+04CD","U+04D0","U+04D2","U+04D4",
    "U+04D6","U+04D8","U+04DA","U+04DC","U+04DE","U+04E0","U+04E2","U+04E4",
    "U+04E6","U+04E8","U+04EA","U+04EC","U+04EE","U+04F0","U+04F2","U+04F4",
    "U+04F6","U+04F8","U+04FA","U+04FC","U+04FE","U+0500","U+0502","U+0504",
    "U+0506","U+0508","U+050A","U+050C","U+050E","U+0510","U+0512","U+0514",
    "U+0516","U+0518","U+051A","U+051C","U+051E","U+0520","U+0522","U+0524",
    "U+0526","U+0528","U+052A","U+052C","U+052E","U+0531","U+0532","U+0533",
    "U+0534","U+0535","U+0536","U+0537","U+0538","U+0539","U+053A","U+053B",
    "U+053C","U+053D","U+053E","U+053F","U+0540","U+0541","U+0542","U+0543",
    "U+0544","U+0545","U+0546","U+0547","U+0548","U+0549","U+054A","U+054B",
    "U+054C","U+054D","U+054E","U+054F","U+0550","U+0551","U+0552","U+0553",
    "U+0554","U+0555","U+0556","U+10A0","U+10A1","U+10A2","U+10A3","U+10A4",
    "U+10A5","U+10A6","U+10A7","U+10A8","U+10A9","U+10AA","U+10AB","U+10AC",
    "U+10AD","U+10AE","U+10AF","U+10B0","U+10B1","U+10B2","U+10B3","U+10B4",
    "U+10B5","U+10B6","U+10B7","U+10B8","U+10B9","U+10BA","U+10BB","U+10BC",
    "U+10BD","U+10BE","U+10BF","U+10C0","U+10C1","U+10C2","U+10C3","U+10C4",
    "U+10C5","U+10C7","U+10CD","U+13A0","U+13A1","U+13A2","U+13A3","U+13A4",
    "U+13A5","U+13A6","U+13A7","U+13A8","U+13A9","U+13AA","U+13AB","U+13AC",
    "U+13AD","U+13AE","U+13AF","U+13B0","U+13B1","U+13B2","U+13B3","U+13B4",
    "U+13B5","U+13B6","U+13B7","U+13B8","U+13B9","U+13BA","U+13BB","U+13BC",
    "U+13BD","U+13BE","U+13BF","U+13C0","U+13C1","U+13C2","U+13C3","U+13C4",
    "U+13C5","U+13C6","U+13C7","U+13C8","U+13C9","U+13CA","U+13CB","U+13CC",
    "U+13CD","U+13CE","U+13CF","U+13D0","U+13D1","U+13D2","U+13D3","U+13D4",
    "U+13D5","U+13D6","U+13D7","U+13D8","U+13D9","U+13DA","U+13DB","U+13DC",
    "U+13DD","U+13DE","U+13DF","U+13E0","U+13E1","U+13E2","U+13E3","U+13E4",
    "U+13E5","U+13E6","U+13E7","U+13E8","U+13E9","U+13EA","U+13EB","U+13EC",
    "U+13ED","U+13EE","U+13EF","U+13F0","U+13F1","U+13F2","U+13F3","U+13F4",
    "U+13F5","U+1C90","U+1C91","U+1C92","U+1C93","U+1C94","U+1C95","U+1C96",
    "U+1C97","U+1C98","U+1C99","U+1C9A","U+1C9B","U+1C9C","U+1C9D","U+1C9E",
    "U+1C9F","U+1CA0","U+1CA1","U+1CA2","U+1CA3","U+1CA4","U+1CA5","U+1CA6",
    "U+1CA7","U+1CA8","U+1CA9","U+1CAA","U+1CAB","U+1CAC","U+1CAD","U+1CAE",
    "U+1CAF","U+1CB0","U+1CB1","U+1CB2","U+1CB3","U+1CB4","U+1CB5","U+1CB6",
    "U+1CB7","U+1CB8","U+1CB9","U+1CBA","U+1CBD","U+1CBE","U+1CBF","U+1E00",
    "U+1E02","U+1E04","U+1E06","U+1E08","U+1E0A","U+1E0C","U+1E0E","U+1E10",
    "U+1E12","U+1E14","U+1E16","U+1E18","U+1E1A","U+1E1C","U+1E1E","U+1E20",
    "U+1E22","U+1E24","U+1E26","U+1E28","U+1E2A","U+1E2C","U+1E2E","U+1E30",
    "U+1E32","U+1E34","U+1E36","U+1E38","U+1E3A","U+1E3C","U+1E3E","U+1E40",
    "U+1E42","U+1E44","U+1E46","U+1E48","U+1E4A","U+1E4C","U+1E4E","U+1E50",
    "U+1E52","U+1E54","U+1E56","U+1E58","U+1E5A","U+1E5C","U+1E5E","U+1E60",
    "U+1E62","U+1E64","U+1E66","U+1E68","U+1E6A","U+1E6C","U+1E6E","U+1E70",
    "U+1E72","U+1E74","U+1E76","U+1E78","U+1E7A","U+1E7C","U+1E7E","U+1E80",
    "U+1E82","U+1E84","U+1E86","U+1E88","U+1E8A","U+1E8C","U+1E8E","U+1E90",
    "U+1E92","U+1E94","U+1E9E","U+1EA0","U+1EA2","U+1EA4","U+1EA6","U+1EA8",
    "U+1EAA","U+1EAC","U+1EAE","U+1EB0","U+1EB2","U+1EB4","U+1EB6","U+1EB8",
    "U+1EBA","U+1EBC","U+1EBE","U+1EC0","U+1EC2","U+1EC4","U+1EC6","U+1EC8",
    "U+1ECA","U+1ECC","U+1ECE","U+1ED0","U+1ED2","U+1ED4","U+1ED6","U+1ED8",
    "U+1EDA","U+1EDC","U+1EDE","U+1EE0","U+1EE2","U+1EE4","U+1EE6","U+1EE8",
    "U+1EEA","U+1EEC","U+1EEE","U+1EF0","U+1EF2","U+1EF4","U+1EF6","U+1EF8",
    "U+1EFA","U+1EFC","U+1EFE","U+1F08","U+1F09","U+1F0A","U+1F0B","U+1F0C",
    "U+1F0D","U+1F0E","U+1F0F","U+1F18","U+1F19","U+1F1A","U+1F1B","U+1F1C",
    "U+1F1D","U+1F28","U+1F29","U+1F2A","U+1F2B","U+1F2C","U+1F2D","U+1F2E",
    "U+1F2F","U+1F38","U+1F39","U+1F3A","U+1F3B","U+1F3C","U+1F3D","U+1F3E",
    "U+1F3F","U+1F48","U+1F49","U+1F4A","U+1F4B","U+1F4C","U+1F4D","U+1F59",
    "U+1F5B","U+1F5D","U+1F5F","U+1F68","U+1F69","U+1F6A","U+1F6B","U+1F6C",
    "U+1F6D","U+1F6E","U+1F6F","U+1F88","U+1F89","U+1F8A","U+1F8B","U+1F8C",
    "U+1F8D","U+1F8E","U+1F8F","U+1F98","U+1F99","U+1F9A","U+1F9B","U+1F9C",
    "U+1F9D","U+1F9E","U+1F9F","U+1FA8","U+1FA9","U+1FAA","U+1FAB","U+1FAC",
    "U+1FAD","U+1FAE","U+1FAF","U+1FB8","U+1FB9","U+1FBA","U+1FBB","U+1FBC",
    "U+1FC8","U+1FC9","U+1FCA","U+1FCB","U+1FCC","U+1FD8","U+1FD9","U+1FDA",
    "U+1FDB","U+1FE8","U+1FE9","U+1FEA","U+1FEB","U+1FEC","U+1FF8","U+1FF9",
    "U+1FFA","U+1FFB","U+1FFC","U+2126","U+212A","U+212B","U+2132","U+2160",
    "U+2161","U+2162","U+2163","U+2164","U+2165","U+2166","U+2167","U+2168",
    "U+2169","U+216A","U+216B","U+216C","U+216D","U+216E","U+216F","U+2183",
    "U+24B6","U+24B7","U+24B8","U+24B9","U+24BA","U+24BB","U+24BC","U+24BD",
    "U+24BE","U+24BF","U+24C0","U+24C1","U+24C2","U+24C3","U+24C4","U+24C5",
    "U+24C6","U+24C7","U+24C8","U+24C9","U+24CA","U+24CB","U+24CC","U+24CD",
    "U+24CE","U+24CF","U+2C00","U+2C01","U+2C02","U+2C03","U+2C04","U+2C05",
    "U+2C06","U+2C07","U+2C08","U+2C09","U+2C0A","U+2C0B","U+2C0C","U+2C0D",
    "U+2C0E","U+2C0F","U+2C10","U+2C11","U+2C12","U+2C13","U+2C14","U+2C15",
    "U+2C16","U+2C17","U+2C18","U+2C19","U+2C1A","U+2C1B","U+2C1C","U+2C1D",
    "U+2C1E","U+2C1F","U+2C20","U+2C21","U+2C22","U+2C23","U+2C24","U+2C25",
    "U+2C26","U+2C27","U+2C28","U+2C29","U+2C2A","U+2C2B","U+2C2C","U+2C2D",
    "U+2C2E","U+2C60","U+2C62","U+2C63","U+2C64","U+2C67","U+2C69","U+2C6B",
    "U+2C6D","U+2C6E","U+2C6F","U+2C70","U+2C72","U+2C75","U+2C7E","U+2C7F",
    "U+2C80","U+2C82","U+2C84","U+2C86","U+2C88","U+2C8A","U+2C8C","U+2C8E",
    "U+2C90","U+2C92","U+2C94","U+2C96","U+2C98","U+2C9A","U+2C9C","U+2C9E",
    "U+2CA0","U+2CA2","U+2CA4","U+2CA6","U+2CA8","U+2CAA","U+2CAC","U+2CAE",
    "U+2CB0","U+2CB2","U+2CB4","U+2CB6","U+2CB8","U+2CBA","U+2CBC","U+2CBE",
    "U+2CC0","U+2CC2","U+2CC4","U+2CC6","U+2CC8","U+2CCA","U+2CCC","U+2CCE",
    "U+2CD0","U+2CD2","U+2CD4","U+2CD6","U+2CD8","U+2CDA","U+2CDC","U+2CDE",
    "U+2CE0","U+2CE2","U+2CEB","U+2CED","U+2CF2","U+A640","U+A642","U+A644",
    "U+A646","U+A648","U+A64A","U+A64C","U+A64E","U+A650","U+A652","U+A654",
    "U+A656","U+A658","U+A65A","U+A65C","U+A65E","U+A660","U+A662","U+A664",
    "U+A666","U+A668","U+A66A","U+A66C","U+A680","U+A682","U+A684","U+A686",
    "U+A688","U+A68A","U+A68C","U+A68E","U+A690","U+A692","U+A694","U+A696",
    "U+A698","U+A69A","U+A722","U+A724","U+A726","U+A728","U+A72A","U+A72C",
    "U+A72E","U+A732","U+A734","U+A736","U+A738","U+A73A","U+A73C","U+A73E",
    "U+A740","U+A742","U+A744","U+A746","U+A748","U+A74A","U+A74C","U+A74E",
    "U+A750","U+A752","U+A754","U+A756","U+A758","U+A75A","U+A75C","U+A75E",
    "U+A760","U+A762","U+A764","U+A766","U+A768","U+A76A","U+A76C","U+A76E",
    "U+A779","U+A77B","U+A77D","U+A77E","U+A780","U+A782","U+A784","U+A786",
    "U+A78B","U+A78D","U+A790","U+A792","U+A796","U+A798","U+A79A","U+A79C",
    "U+A79E","U+A7A0","U+A7A2","U+A7A4","U+A7A6","U+A7A8","U+A7AA","U+A7AB",
    "U+A7AC","U+A7AD","U+A7AE","U+A7B0","U+A7B1","U+A7B2","U+A7B3","U+A7B4",
    "U+A7B6","U+A7B8","U+A7BA","U+A7BC","U+A7BE","U+A7C2","U+A7C4","U+A7C5",
    "U+A7C6","U+A7C7","U+A7C9","U+A7F5","U+FF21","U+FF22","U+FF23","U+FF24",
    "U+FF25","U+FF26","U+FF27","U+FF28","U+FF29","U+FF2A","U+FF2B","U+FF2C",
    "U+FF2D","U+FF2E","U+FF2F","U+FF30","U+FF31","U+FF32","U+FF33","U+FF34",
    "U+FF35","U+FF36","U+FF37","U+FF38","U+FF39","U+FF3A","U+10400","U+10401",
    "U+10402","U+10403","U+10404","U+10405","U+10406","U+10407","U+10408","U+10409",
    "U+1040A","U+1040B","U+1040C","U+1040D","U+1040E","U+1040F","U+10410","U+10411",
    "U+10412","U+10413","U+10414","U+10415","U+10416","U+10417","U+10418","U+10419",
    "U+1041A","U+1041B","U+1041C","U+1041D","U+1041E","U+1041F","U+10420","U+10421",
    "U+10422","U+10423","U+10424","U+10425","U+10426","U+10427","U+104B0","U+104B1",
    "U+104B2","U+104B3","U+104B4","U+104B5","U+104B6","U+104B7","U+104B8","U+104B9",
    "U+104BA","U+104BB","U+104BC","U+104BD","U+104BE","U+104BF","U+104C0","U+104C1",
    "U+104C2","U+104C3","U+104C4","U+104C5","U+104C6","U+104C7","U+104C8","U+104C9",
    "U+104CA","U+104CB","U+104CC","U+104CD","U+104CE","U+104CF","U+104D0","U+104D1",
    "U+104D2","U+104D3","U+10C80","U+10C81","U+10C82","U+10C83","U+10C84","U+10C85",
    "U+10C86","U+10C87","U+10C88","U+10C89","U+10C8A","U+10C8B","U+10C8C","U+10C8D",
    "U+10C8E","U+10C8F","U+10C90","U+10C91","U+10C92","U+10C93","U+10C94","U+10C95",
    "U+10C96","U+10C97","U+10C98","U+10C99","U+10C9A","U+10C9B","U+10C9C","U+10C9D",
    "U+10C9E","U+10C9F","U+10CA0","U+10CA1","U+10CA2","U+10CA3","U+10CA4","U+10CA5",
    "U+10CA6","U+10CA7","U+10CA8","U+10CA9","U+10CAA","U+10CAB","U+10CAC","U+10CAD",
    "U+10CAE","U+10CAF","U+10CB0","U+10CB1","U+10CB2","U+118A0","U+118A1","U+118A2",
    "U+118A3","U+118A4","U+118A5","U+118A6","U+118A7","U+118A8","U+118A9","U+118AA",
    "U+118AB","U+118AC","U+118AD","U+118AE","U+118AF","U+118B0","U+118B1","U+118B2",
    "U+118B3","U+118B4","U+118B5","U+118B6","U+118B7","U+118B8","U+118B9","U+118BA",
    "U+118BB","U+118BC","U+118BD","U+118BE","U+118BF","U+16E40","U+16E41","U+16E42",
    "U+16E43","U+16E44","U+16E45","U+16E46","U+16E47","U+16E48","U+16E49","U+16E4A",
    "U+16E4B","U+16E4C","U+16E4D","U+16E4E","U+16E4F","U+16E50","U+16E51","U+16E52",
    "U+16E53","U+16E54","U+16E55","U+16E56","U+16E57","U+16E58","U+16E59","U+16E5A",
    "U+16E5B","U+16E5C","U+16E5D","U+16E5E","U+16E5F","U+1E900","U+1E901","U+1E902",
    "U+1E903","U+1E904","U+1E905","U+1E906","U+1E907","U+1E908","U+1E909","U+1E90A",
    "U+1E90B","U+1E90C","U+1E90D","U+1E90E","U+1E90F","U+1E910","U+1E911","U+1E912",
    "U+1E913","U+1E914","U+1E915","U+1E916","U+1E917","U+1E918","U+1E919","U+1E91A",
    "U+1E91B","U+1E91C","U+1E91D","U+1E91E","U+1E91F","U+1E920","U+1E921" >>

LowerCase == <<
    "a","b","c","d","e","f","g","h","i","j","k","l","m",
    "n","o","p","q","r","s","t","u","v","w","x","y","z",
    "U+00E0","U+00E1","U+00E2","U+00E3","U+00E4","U+00E5","U+00E6","U+00E7",
    "U+00E8","U+00E9","U+00EA","U+00EB","U+00EC","U+00ED","U+00EE","U+00EF",
    "U+00F0","U+00F1","U+00F2","U+00F3","U+00F4","U+00F5","U+00F6","U+00F8",
    "U+00F9","U+00FA","U+00FB","U+00FC","U+00FD","U+00FE","U+0101","U+0103",
    "U+0105","U+0107","U+0109","U+010B","U+010D","U+010F","U+0111","U+0113",
    "U+0115","U+0117","U+0119","U+011B","U+011D","U+011F","U+0121","U+0123",
    "U+0125","U+0127","U+0129","U+012B","U+012D","U+012F","i","U+0133",
    "U+0135","U+0137","U+013A","U+013C","U+013E","U+0140","U+0142","U+0144",
    "U+0146","U+0148","U+014B","U+014D","U+014F","U+0151","U+0153","U+0155",
    "U+0157","U+0159","U+015B","U+015D","U+015F","U+0161","U+0163","U+0165",
    "U+0167","U+0169","U+016B","U+016D","U+016F","U+0171","U+0173","U+0175",
    "U+0177","U+00FF","U+017A","U+017C","U+017E","U+0253","U+0183","U+0185",
    "U+0254","U+0188","U+0256","U+0257","U+018C","U+01DD","U+0259","U+025B",
    "U+0192","U+0260","U+0263","U+0269","U+0268","U+0199","U+026F","U+0272",
    "U+0275","U+01A1","U+01A3","U+01A5","U+0280","U+01A8","U+0283","U+01AD",
    "U+0288","U+01B0","U+028A","U+028B","U+01B4","U+01B6","U+0292","U+01B9",
    "U+01BD","U+01C6","U+01C6","U+01C9","U+01C9","U+01CC","U+01CC","U+01CE",
    "U+01D0","U+01D2","U+01D4","U+01D6","U+01D8","U+01DA","U+01DC","U+01DF",
    "U+01E1","U+01E3","U+01E5","U+01E7","U+01E9","U+01EB","U+01ED","U+01EF",
    "U+01F3","U+01F3","U+01F5","U+0195","U+01BF","U+01F9","U+01FB","U+01FD",
    "U+01FF","U+0201","U+0203","U+0205","U+0207","U+0209","U+020B","U+020D",
    "U+020F","U+0211","U+0213","U+0215","U+0217","U+0219","U+021B","U+021D",
    "U+021F","U+019E","U+0223","U+0225","U+0227","U+0229","U+022B","U+022D",
    "U+022F","U+0231","U+0233","U+2C65","U+023C","U+019A","U+2C66","U+0242",
    "U+0180","U+0289","U+028C","U+0247","U+0249","U+024B","U+024D","U+024F",
    "U+0371","U+0373","U+0377","U+03F3","U+03AC","U+03AD","U+03AE","U+03AF",
    "U+03CC","U+03CD","U+03CE","U+03B1","U+03B2","U+03B3","U+03B4","U+03B5",
    "U+03B6","U+03B7","U+03B8","U+03B9","U+03BA","U+03BB","U+03BC","U+03BD",
    "U+03BE","U+03BF","U+03C0","U+03C1","U+03C3","U+03C4","U+03C5","U+03C6",
    "U+03C7","U+03C8","U+03C9","U+03CA","U+03CB","U+03D7","U+03D9","U+03DB",
    "U+03DD","U+03DF","U+03E1","U+03E3","U+03E5","U+03E7","U+03E9","U+03EB",
    "U+03ED","U+03EF","U+03B8","U+03F8","U+03F2","U+03FB","U+037B","U+037C",
    "U+037D","U+0450","U+0451","U+0452","U+0453","U+0454","U+0455","U+0456",
    "U+0457","U+0458","U+0459","U+045A","U+045B","U+045C","U+045D","U+045E",
    "U+045F","U+0430","U+0431","U+0432","U+0433","U+0434","U+0435","U+0436",
    "U+0437","U+0438","U+0439","U+043A","U+043B","U+043C","U+043D","U+043E",
    "U+043F","U+0440","U+0441","U+0442","U+0443","U+0444","U+0445","U+0446",
    "U+0447","U+0448","U+0449","U+044A","U+044B","U+044C","U+044D","U+044E",
    "U+044F","U+0461","U+0463","U+0465","U+0467","U+0469","U+046B","U+046D",
    "U+046F","U+0471","U+0473","U+0475","U+0477","U+0479","U+047B","U+047D",
    "U+047F","U+0481","U+048B","U+048D","U+048F","U+0491","U+0493","U+0495",
    "U+0497","U+0499","U+049B","U+049D","U+049F","U+04A1","U+04A3","U+04A5",
    "U+04A7","U+04A9","U+04AB","U+04AD","U+04AF","U+04B1","U+04B3","U+04B5",
    "U+04B7","U+04B9","U+04BB","U+04BD","U+04BF","U+04CF","U+04C2","U+04C4",
    "U+04C6","U+04C8","U+04CA","U+04CC","U+04CE","U+04D1","U+04D3","U+04D5",
    "U+04D7","U+04D9","U+04DB","U+04DD","U+04DF","U+04E1","U+04E3","U+04E5",
    "U+04E7","U+04E9","U+04EB","U+04ED","U+04EF","U+04F1","U+04F3","U+04F5",
    "U+04F7","U+04F9","U+04FB","U+04FD","U+04FF","U+0501","U+0503","U+0505",
    "U+0507","U+0509","U+050B","U+050D","U+050F","U+0511","U+0513","U+0515",
    "U+0517","U+0519","U+051B","U+051D","U+051F","U+0521","U+0523","U+0525",
    "U+0527","U+0529","U+052B","U+052D","U+052F","U+0561","U+0562","U+0563",
    "U+0564","U+0565","U+0566","U+0567","U+0568","U+0569","U+056A","U+056B",
    "U+056C","U+056D","U+056E","U+056F","U+0570","U+0571","U+0572","U+0573",
    "U+0574","U+0575","U+0576","U+0577","U+0578","U+0579","U+057A","U+057B",
    "U+057C","U+057D","U+057E","U+057F","U+0580","U+0581","U+0582","U+0583",
    "U+0584","U+0585","U+0586","U+2D00","U+2D01","U+2D02","U+2D03","U+2D04",
    "U+2D05","U+2D06","U+2D07","U+2D08","U+2D09","U+2D0A","U+2D0B","U+2D0C",
    "U+2D0D","U+2D0E","U+2D0F","U+2D10","U+2D11","U+2D12","U+2D13","U+2D14",
    "U+2D15","U+2D16","U+2D17","U+2D18","U+2D19","U+2D1A","U+2D1B","U+2D1C",
    "U+2D1D","U+2D1E","U+2D1F","U+2D20","U+2D21","U+2D22","U+2D23","U+2D24",
    "U+2D25","U+2D27","U+2D2D","U+AB70","U+AB71","U+AB72","U+AB73","U+AB74",
    "U+AB75","U+AB76","U+AB77","U+AB78","U+AB79","U+AB7A","U+AB7B","U+AB7C",
    "U+AB7D","U+AB7E","U+AB7F","U+AB80","U+AB81","U+AB82","U+AB83","U+AB84",
    "U+AB85","U+AB86","U+AB87","U+AB88","U+AB89","U+AB8A","U+AB8B","U+AB8C",
    "U+AB8D","U+AB8E","U+AB8F","U+AB90","U+AB91","U+AB92","U+AB93","U+AB94",
    "U+AB95","U+AB96","U+AB97","U+AB98","U+AB99","U+AB9A","U+AB9B","U+AB9C",
    "U+AB9D","U+AB9E","U+AB9F","U+ABA0","U+ABA1","U+ABA2","U+ABA3","U+ABA4",
    "U+ABA5","U+ABA6","U+ABA7","U+ABA8","U+ABA9","U+ABAA","U+ABAB","U+ABAC",
    "U+ABAD","U+ABAE","U+ABAF","U+ABB0","U+ABB1","U+ABB2","U+ABB3","U+ABB4",
    "U+ABB5","U+ABB6","U+ABB7","U+ABB8","U+ABB9","U+ABBA","U+ABBB","U+ABBC",
    "U+ABBD","U+ABBE","U+ABBF","U+13F8","U+13F9","U+13FA","U+13FB","U+13FC",
    "U+13FD","U+10D0","U+10D1","U+10D2","U+10D3","U+10D4","U+10D5","U+10D6",
    "U+10D7","U+10D8","U+10D9","U+10DA","U+10DB","U+10DC","U+10DD","U+10DE",
    "U+10DF","U+10E0","U+10E1","U+10E2","U+10E3","U+10E4","U+10E5","U+10E6",
    "U+10E7","U+10E8","U+10E9","U+10EA","U+10EB","U+10EC","U+10ED","U+10EE",
    "U+10EF","U+10F0","U+10F1","U+10F2","U+10F3","U+10F4","U+10F5","U+10F6",
    "U+10F7","U+10F8","U+10F9","U+10FA","U+10FD","U+10FE","U+10FF","U+1E01",
    "U+1E03","U+1E05","U+1E07","U+1E09","U+1E0B","U+1E0D","U+1E0F","U+1E11",
    "U+1E13","U+1E15","U+1E17","U+1E19","U+1E1B","U+1E1D","U+1E1F","U+1E21",
    "U+1E23","U+1E25","U+1E27","U+1E29","U+1E2B","U+1E2D","U+1E2F","U+1E31",
    "U+1E33","U+1E35","U+1E37","U+1E39","U+1E3B","U+1E3D","U+1E3F","U+1E41",
    "U+1E43","U+1E45","U+1E47","U+1E49","U+1E4B","U+1E4D","U+1E4F","U+1E51",
    "U+1E53","U+1E55","U+1E57","U+1E59","U+1E5B","U+1E5D","U+1E5F","U+1E61",
    "U+1E63","U+1E65","U+1E67","U+1E69","U+1E6B","U+1E6D","U+1E6F","U+1E71",
    "U+1E73","U+1E75","U+1E77","U+1E79","U+1E7B","U+1E7D","U+1E7F","U+1E81",
    "U+1E83","U+1E85","U+1E87","U+1E89","U+1E8B","U+1E8D","U+1E8F","U+1E91",
    "U+1E93","U+1E95","U+00DF","U+1EA1","U+1EA3","U+1EA5","U+1EA7","U+1EA9",
    "U+1EAB","U+1EAD","U+1EAF","U+1EB1","U+1EB3","U+1EB5","U+1EB7","U+1EB9",
    "U+1EBB","U+1EBD","U+1EBF","U+1EC1","U+1EC3","U+1EC5","U+1EC7","U+1EC9",
    "U+1ECB","U+1ECD","U+1ECF","U+1ED1","U+1ED3","U+1ED5","U+1ED7","U+1ED9",
    "U+1EDB","U+1EDD","U+1EDF","U+1EE1","U+1EE3","U+1EE5","U+1EE7","U+1EE9",
    "U+1EEB","U+1EED","U+1EEF","U+1EF1","U+1EF3","U+1EF5","U+1EF7","U+1EF9",
    "U+1EFB","U+1EFD","U+1EFF","U+1F00","U+1F01","U+1F02","U+1F03","U+1F04",
    "U+1F05","U+1F06","U+1F07","U+1F10","U+1F11","U+1F12","U+1F13","U+1F14",
    "U+1F15","U+1F20","U+1F21","U+1F22","U+1F23","U+1F24","U+1F25","U+1F26",
    "U+1F27","U+1F30","U+1F31","U+1F32","U+1F33","U+1F34","U+1F35","U+1F36",
    "U+1F37","U+1F40","U+1F41","U+1F42","U+1F43","U+1F44","U+1F45","U+1F51",
    "U+1F53","U+1F55","U+1F57","U+1F60","U+1F61","U+1F62","U+1F63","U+1F64",
    "U+1F65","U+1F66","U+1F67","U+1F80","U+1F81","U+1F82","U+1F83","U+1F84",
    "U+1F85","U+1F86","U+1F87","U+1F90","U+1F91","U+1F92","U+1F93","U+1F94",
    "U+1F95","U+1F96","U+1F97","U+1FA0","U+1FA1","U+1FA2","U+1FA3","U+1FA4",
    "U+1FA5","U+1FA6","U+1FA7","U+1FB0","U+1FB1","U+1F70","U+1F71","U+1FB3",
    "U+1F72","U+1F73","U+1F74","U+1F75","U+1FC3","U+1FD0","U+1FD1","U+1F76",
    "U+1F77","U+1FE0","U+1FE1","U+1F7A","U+1F7B","U+1FE5","U+1F78","U+1F79",
    "U+1F7C","U+1F7D","U+1FF3","U+03C9","k","U+00E5","U+214E","U+2170",
    "U+2171","U+2172","U+2173","U+2174","U+2175","U+2176","U+2177","U+2178",
    "U+2179","U+217A","U+217B","U+217C","U+217D","U+217E","U+217F","U+2184",
    "U+24D0","U+24D1","U+24D2","U+24D3","U+24D4","U+24D5","U+24D6","U+24D7",
    "U+24D8","U+24D9","U+24DA","U+24DB","U+24DC","U+24DD","U+24DE","U+24DF",
    "U+24E0","U+24E1","U+24E2","U+24E3","U+24E4","U+24E5","U+24E6","U+24E7",
    "U+24E8","U+24E9","U+2C30","U+2C31","U+2C32","U+2C33","U+2C34","U+2C35",
    "U+2C36","U+2C37","U+2C38","U+2C39","U+2C3A","U+2C3B","U+2C3C","U+2C3D",
    "U+2C3E","U+2C3F","U+2C40","U+2C41","U+2C42","U+2C43","U+2C44","U+2C45",
    "U+2C46","U+2C47","U+2C48","U+2C49","U+2C4A","U+2C4B","U+2C4C","U+2C4D",
    "U+2C4E","U+2C4F","U+2C50","U+2C51","U+2C52","U+2C53","U+2C54","U+2C55",
    "U+2C56","U+2C57","U+2C58","U+2C59","U+2C5A","U+2C5B","U+2C5C","U+2C5D",
    "U+2C5E","U+2C61","U+026B","U+1D7D","U+027D","U+2C68","U+2C6A","U+2C6C",
    "U+0251","U+0271","U+0250","U+0252","U+2C73","U+2C76","U+023F","U+0240",
    "U+2C81","U+2C83","U+2C85","U+2C87","U+2C89","U+2C8B","U+2C8D","U+2C8F",
    "U+2C91","U+2C93","U+2C95","U+2C97","U+2C99","U+2C9B","U+2C9D","U+2C9F",
    "U+2CA1","U+2CA3","U+2CA5","U+2CA7","U+2CA9","U+2CAB","U+2CAD","U+2CAF",
    "U+2CB1","U+2CB3","U+2CB5","U+2CB7","U+2CB9","U+2CBB","U+2CBD","U+2CBF",
    "U+2CC1","U+2CC3","U+2CC5","U+2CC7","U+2CC9","U+2CCB","U+2CCD","U+2CCF",
    "U+2CD1","U+2CD3","U+2CD5","U+2CD7","U+2CD9","U+2CDB","U+2CDD","U+2CDF",
    "U+2CE1","U+2CE3","U+2CEC","U+2CEE","U+2CF3","U+A641","U+A643","U+A645",
    "U+A647","U+A649","U+A64B","U+A64D","U+A64F","U+A651","U+A653","U+A655",
    "U+A657","U+A659","U+A65B","U+A65D","U+A65F","U+A661","U+A663","U+A665",
    "U+A667","U+A669","U+A66B","U+A66D","U+A681","U+A683","U+A685","U+A687",
    "U+A689","U+A68B","U+A68D","U+A68F","U+A691","U+A693","U+A695","U+A697",
    "U+A699","U+A69B","U+A723","U+A725","U+A727","U+A729","U+A72B","U+A72D",
    "U+A72F","U+A733","U+A735","U+A737","U+A739","U+A73B","U+A73D","U+A73F",
    "U+A741","U+A743","U+A745","U+A747","U+A749","U+A74B","U+A74D","U+A74F",
    "U+A751","U+A753","U+A755","U+A757","U+A759","U+A75B","U+A75D","U+A75F",
    "U+A761","U+A763","U+A765","U+A767","U+A769","U+A76B","U+A76D","U+A76F",
    "U+A77A","U+A77C","U+1D79","U+A77F","U+A781","U+A783","U+A785","U+A787",
    "U+A78C","U+0265","U+A791","U+A793","U+A797","U+A799","U+A79B","U+A79D",
    "U+A79F","U+A7A1","U+A7A3","U+A7A5","U+A7A7","U+A7A9","U+0266","U+025C",
    "U+0261","U+026C","U+026A","U+029E","U+0287","U+029D","U+AB53","U+A7B5",
    "U+A7B7","U+A7B9","U+A7BB","U+A7BD","U+A7BF","U+A7C3","U+A794","U+0282",
    "U+1D8E","U+A7C8","U+A7CA","U+A7F6","U+FF41","U+FF42","U+FF43","U+FF44",
    "U+FF45","U+FF46","U+FF47","U+FF48","U+FF49","U+FF4A","U+FF4B","U+FF4C",
    "U+FF4D","U+FF4E","U+FF4F","U+FF50","U+FF51","U+FF52","U+FF53","U+FF54",
    "U+FF55","U+FF56","U+FF57","U+FF58","U+FF59","U+FF5A","U+10428","U+10429",
    "U+1042A","U+1042B","U+1042C","U+1042D","U+1042E","U+1042F","U+10430","U+10431",
    "U+10432","U+10433","U+10434","U+10435","U+10436","U+10437","U+10438","U+10439",
    "U+1043A","U+1043B","U+1043C","U+1043D","U+1043E","U+1043F","U+10440","U+10441",
    "U+10442","U+10443","U+10444","U+10445","U+10446","U+10447","U+10448","U+10449",
    "U+1044A","U+1044B","U+1044C","U+1044D","U+1044E","U+1044F","U+104D8","U+104D9",
    "U+104DA","U+104DB","U+104DC","U+104DD","U+104DE","U+104DF","U+104E0","U+104E1",
    "U+104E2","U+104E3","U+104E4","U+104E5","U+104E6","U+104E7","U+104E8","U+104E9",
    "U+104EA","U+104EB","U+104EC","U+104ED","U+104EE","U+104EF","U+104F0","U+104F1",
    "U+104F2","U+104F3","U+104F4","U+104F5","U+104F6","U+104F7","U+104F8","U+104F9",
    "U+104FA","U+104FB","U+10CC0","U+10CC1","U+10CC2","U+10CC3","U+10CC4","U+10CC5",
    "U+10CC6","U+10CC7","U+10CC8","U+10CC9","U+10CCA","U+10CCB","U+10CCC","U+10CCD",
    "U+10CCE","U+10CCF","U+10CD0","U+10CD1","U+10CD2","U+10CD3","U+10CD4","U+10CD5",
    "U+10CD6","U+10CD7","U+10CD8","U+10CD9","U+10CDA","U+10CDB","U+10CDC","U+10CDD",
    "U+10CDE","U+10CDF","U+10CE0","U+10CE1","U+10CE2","U+10CE3","U+10CE4","U+10CE5",
    "U+10CE6","U+10CE7","U+10CE8","U+10CE9","U+10CEA","U+10CEB","U+10CEC","U+10CED",
    "U+10CEE","U+10CEF","U+10CF0","U+10CF1","U+10CF2","U+118C0","U+118C1","U+118C2",
    "U+118C3","U+118C4","U+118C5","U+118C6","U+118C7","U+118C8","U+118C9","U+118CA",
    "U+118CB","U+118CC","U+118CD","U+118CE","U+118CF","U+118D0","U+118D1","U+118D2",
    "U+118D3","U+118D4","U+118D5","U+118D6","U+118D7","U+118D8","U+118D9","U+118DA",
    "U+118DB","U+118DC","U+118DD","U+118DE","U+118DF","U+16E60","U+16E61","U+16E62",
    "U+16E63","U+16E64","U+16E65","U+16E66","U+16E67","U+16E68","U+16E69","U+16E6A",
    "U+16E6B","U+16E6C","U+16E6D","U+16E6E","U+16E6F","U+16E70","U+16E71","U+16E72",
    "U+16E73","U+16E74","U+16E75","U+16E76","U+16E77","U+16E78","U+16E79","U+16E7A",
    "U+16E7B","U+16E7C","U+16E7D","U+16E7E","U+16E7F","U+1E922","U+1E923","U+1E924",
    "U+1E925","U+1E926","U+1E927","U+1E928","U+1E929","U+1E92A","U+1E92B","U+1E92C",
    "U+1E92D","U+1E92E","U+1E92F","U+1E930","U+1E931","U+1E932","U+1E933","U+1E934",
    "U+1E935","U+1E936","U+1E937","U+1E938","U+1E939","U+1E93A","U+1E93B","U+1E93C",
    "U+1E93D","U+1E93E","U+1E93F","U+1E940","U+1E941","U+1E942","U+1E943" >>

\* unicode.ToLower
LowerChar(c) ==
    LET places == IF Len(c) = 1 THEN 1..26 ELSE 27..Len(UpperCase)
    IN  IF \E i \in places : UpperCase[i] = c
        THEN LowerCase[CHOOSE i \in places : UpperCase[i] = c]
        ELSE c

ToLower(s) == [i \in 1..Len(s) |-> LowerChar(s[i])]

(***************************************************************************)
(* The world the handler talks to.                                         *)
(***************************************************************************)
\* the request slots of the server: the handler runs once per request, on
\* its own goroutine.  One slot is used when requests are served one after
\* the other, both when two requests are in flight together.
Reqs == {1, 2}

KnownTaskID == <<"T","1">>
KnownOrderID == <<"O","1">>
EmptyString == <<>>

TaskStates == {ORDER_TASK_STATE_UNSPECIFIED, ORDER_TASK_STATE_ONGOING,
               ORDER_TASK_STATE_SUCCESS, ORDER_TASK_STATE_FAILED}
OrderStates == {ORDER_STATE_UNSPECIFIED, ORDER_STATE_PENDING, ORDER_STATE_PAID,
                ORDER_STATE_CANCELLED, ORDER_STATE_DONE}

\* tpb.OrderTask{}: the zero value
ZeroOrderTask ==
    [TaskId |-> EmptyString, OrderId |-> EmptyString,
     TaskType |-> ORDER_TASK_TYPE_UNSPECIFIED, State |-> ORDER_TASK_STATE_UNSPECIFIED]

PaymentTask(s) ==
    [TaskId |-> KnownTaskID, OrderId |-> KnownOrderID,
     TaskType |-> ORDER_TASK_TYPE_PAYMENT, State |-> s]

\* the i-th task of another type of the order; it is already done
OtherTask(i) ==
    [TaskId |-> <<"D", i>>, OrderId |-> KnownOrderID,
     TaskType |-> ORDER_TASK_TYPE_DELIVERY, State |-> ORDER_TASK_STATE_SUCCESS]

OtherTasks(n) == [i \in 1..n |-> OtherTask(i)]

\* the task lists the task service may hold for KnownTaskID
TaskLists ==
    { OtherTasks(n) : n \in 0..MaxOtherTasks }
    \cup { Append(OtherTasks(n), PaymentTask(s)) : n \in 0..MaxOtherTasks, s \in TaskStates }


(***************************************************************************)
(* The signature scheme (package auth): the hex SHA-512 digest of          *)
(* orderId + statusCode + grossAmount + serverKey.  The digest is modelled *)
(* as collision-free: the tagged preimage.                                 *)
(***************************************************************************)
Sha512Hex(s) == <<"sha512">> \o s

ValidateCallbackSignature(signatureKey, orderId, statusCode, grossAmount, key) ==
    IF signatureKey = Sha512Hex(orderId \o statusCode \o grossAmount \o key)
    THEN Nil
    ELSE ErrInvalidSignature

(***************************************************************************)
(* The notifications the provider (or a forger) may send.                  *)
(***************************************************************************)
StatusCode200 == <<"2","0","0">>
GrossAmount == <<"1","0","0","0","0","0",".","0","0">>
TamperedAmount == <<"1",".","0","0">>
ForgerKey == <<"b","a","d">>

ContentTypes == {"", "application/json", "text/plain", "application/json; charset=utf-8"}

SignatureKeys ==
    { Sha512Hex(KnownTaskID \o StatusCode200 \o GrossAmount \o serverKey),
      Sha512Hex(KnownTaskID \o StatusCode200 \o TamperedAmount \o serverKey),
      Sha512Hex(KnownTaskID \o StatusCode200 \o GrossAmount \o ForgerKey),
      EmptyString }

InboundStatuses ==
    { PendingTransactionStatus,
      <<"P","E","N","D","I","N","G">>,
      <<"P","e","n","d","i","n","g">>,
      <<"P","E","N","D","U+0130","N","G">>,
      SettlementTransactionStatus,
      EmptyString }

PaymentTypes == {PaymentMethod_Gopay, PaymentMethod_VirtualAccount, "unknown-wallet", ""}

\* UpdateTransactionRequest{}: the body did not decode, no field is read
ZeroBody ==
    [OrderID |-> EmptyString, StatusCode |-> EmptyString, GrossAmount |-> EmptyString,
     SignatureKey |-> EmptyString, TransactionStatus |-> EmptyString, PaymentType |-> "",
     FraudStatus |-> EmptyString, StatusMessage |-> ""]

\* FraudStatus and StatusMessage stand for the fields the handler never reads
Bodies ==
    [OrderID : {KnownTaskID}, StatusCode : {StatusCode200}, GrossAmount : {GrossAmount},
     SignatureKey : SignatureKeys, TransactionStatus : InboundStatuses,
     PaymentType : PaymentTypes, FraudStatus : {EmptyString}, StatusMessage : {""}]

\* the notifications of the runs with two requests in flight: a genuine
\* settlement notification, and one for the same order whose status, fraud
\* status, status message and payment type are different
GenuineNotification ==
    [OrderID |-> KnownTaskID, StatusCode |-> StatusCode200, GrossAmount |-> GrossAmount,
     SignatureKey |-> Sha512Hex(KnownTaskID \o StatusCode200 \o GrossAmount \o serverKey),
     TransactionStatus |-> SettlementTransactionStatus, PaymentType |-> PaymentMethod_Gopay,
     FraudStatus |-> FraudStatusAccept, StatusMessage |-> "Success, transaction is found"]

OtherNotification ==
    [GenuineNotification EXCEPT !.TransactionStatus = DenyTransactionStatus,
                                !.PaymentType = PaymentMethod_VirtualAccount,
                                !.FraudStatus = DenyTransactionStatus,
                                !.StatusMessage = "Transaction is denied"]

ConcurrentRequests ==
    { [ContentType |-> "application/json", decodes |-> TRUE, body |-> b] :
        b \in {GenuineNotification, OtherNotification} }

\* an HTTP request: its Content-Type header, whether its body decodes, the decoded body
Requests ==
    { [ContentType |-> ct, decodes |-> TRUE, body |-> b] : ct \in ContentTypes, b \in Bodies }
    \cup { [ContentType |-> ct, decodes |-> FALSE, body |-> ZeroBody] : ct \in ContentTypes }
    \cup ConcurrentRequests

NoRequest == [ContentType |-> "", decodes |-> FALSE, body |-> ZeroBody]

(***************************************************************************)
(* The answers of the provider's status lookup.                            *)
(***************************************************************************)
AuthoritativeStatuses ==
    { CaptureTransactionStatus, SettlementTransactionStatus,
      <<"S","e","t","t","l","e","m","e","n","t">>,
      ExpireTransactionStatus, FailureTransactionStatus, CancelTransactionStatus,
      DenyTransactionStatus, <<"D","E","N","Y">>,
      AuthorizedTransactionStatus, RefundTransactionStatus, PendingTransactionStatus }

FraudStatuses ==
    { EmptyString, FraudStatusAccept, <<"A","c","c","e","p","t">>, DenyTransactionStatus }

Transactions == [TransactionStatus : AuthoritativeStatuses, FraudStatus : FraudStatuses]

NoTransaction == [TransactionStatus |-> EmptyString, FraudStatus |-> EmptyString]

(***************************************************************************)
(* The handler's pure parts.                                               *)
(***************************************************************************)
\* a header check that accepts a media type with parameters
validateHeadersWithParameters(ct) ==
    IF ct = "" THEN ErrContenTypeIsRequired
    ELSE IF ct \notin {"application/json", "application/json; charset=utf-8"}
         THEN ErrInvalidContentType
    ELSE Nil

validateHeaders(ct) ==
    IF ct = "" THEN ErrContenTypeIsRequired
    ELSE IF ct # "application/json" THEN ErrInvalidContentType
    ELSE Nil

\* a comparison that forgets strings.ToLower
IsPendingExactCase(transactionStatus) == transactionStatus = PendingTransactionStatus

\* line 202
IsPending(transactionStatus) == ToLower(transactionStatus) = PendingTransactionStatus

\* a dispatch whose default arm is missing: every payment type gets a getter
initializeTransactionGetterNoDefault(paymentType, newTransactionErr) ==
    IF newTransactionErr THEN ErrInternalServerError ELSE Nil

\* newTransactionErr: whether transaction.NewTransaction returns an error
initializeTransactionGetter(paymentType, newTransactionErr) ==
    IF paymentType \in {PaymentMethod_Gopay, PaymentMethod_VirtualAccount}
    THEN (IF newTransactionErr THEN ErrInternalServerError ELSE Nil)
    ELSE ErrUnsupportedPaymentMethod

\* the local checks with the signature check left out
LocalChecksNoSignature(q, newTransactionErr) ==
    IF validateHeaders(q.ContentType) # Nil THEN StatusBadRequest
    ELSE IF ~q.decodes THEN StatusBadRequest
    ELSE IF ToLower(q.body.TransactionStatus) = PendingTransactionStatus THEN StatusOK
    ELSE IF q.body.PaymentType \notin {PaymentMethod_Gopay, PaymentMethod_VirtualAccount}
            \/ newTransactionErr
         THEN StatusInternalServerError
    ELSE 0

\* the local checks answering a body that does not decode with 500
LocalChecksDecodeError500(q, newTransactionErr) ==
    IF validateHeaders(q.ContentType) # Nil THEN StatusBadRequest
    ELSE IF ~q.decodes THEN StatusInternalServerError
    ELSE IF ValidateCallbackSignature(q.body.SignatureKey, q.body.OrderID,
                q.body.StatusCode, q.body.GrossAmount, serverKey) # Nil
         THEN StatusBadRequest
    ELSE IF ToLower(q.body.TransactionStatus) = PendingTransactionStatus THEN StatusOK
    ELSE IF q.body.PaymentType \notin {PaymentMethod_Gopay, PaymentMethod_VirtualAccount}
            \/ newTransactionErr
         THEN StatusInternalServerError
    ELSE 0

\* lines 174-211: the status code written by the checks made before any
\* network call, 0 when they all pass
LocalChecks(q, newTransactionErr) ==
    IF validateHeaders(q.ContentType) # Nil THEN StatusBadRequest
    ELSE IF ~q.decodes THEN StatusBadRequest
    ELSE IF ValidateCallbackSignature(q.body.SignatureKey, q.body.OrderID,
                q.body.StatusCode, q.body.GrossAmount, serverKey) # Nil
         THEN StatusBadRequest
    ELSE IF IsPending(q.body.TransactionStatus) THEN StatusOK
    ELSE IF initializeTransactionGetter(q.body.PaymentType, newTransactionErr) # Nil
         THEN StatusInternalServerError
    ELSE 0

\* lines 174-211: the local checks the handler runs, in order, up to and
\* including the first that fails
ChecksRun(q, newTransactionErr) ==
    IF validateHeaders(q.ContentType) # Nil THEN <<"validateHeaders">>
    ELSE IF ~q.decodes THEN <<"validateHeaders", "Decode">>
    ELSE IF ValidateCallbackSignature(q.body.SignatureKey, q.body.OrderID,
                q.body.StatusCode, q.body.GrossAmount, serverKey) # Nil
         THEN <<"validateHeaders", "Decode", "ValidateCallbackSignature">>
    ELSE IF IsPending(q.body.TransactionStatus)
         THEN <<"validateHeaders", "Decode", "ValidateCallbackSignature", "IsPending">>
    ELSE <<"validateHeaders", "Decode", "ValidateCallbackSignature", "IsPending",
           "initializeTransactionGetter">>

\* a response written the way http.Error writes it: plain text with the error in the body
writeJSONResponseAsError(code) ==
    [StatusCode |-> code, ContentType |-> "text/plain; charset=utf-8",
     Body |-> IF code = StatusOK THEN "" ELSE ErrInternalServerError]

\* writeJSONResponse: the Content-Type header is set, the status code is
\* written, nothing is written to the body
writeJSONResponse(code) ==
    [StatusCode |-> code, ContentType |-> "application/json", Body |-> ""]

\* a selection that keeps the last task of the list when none is a payment task
SelectPaymentTaskOrLast(ts) ==
    IF \E i \in DOMAIN ts : ts[i].TaskType = ORDER_TASK_TYPE_PAYMENT
    THEN ts[CHOOSE i \in DOMAIN ts : ts[i].TaskType = ORDER_TASK_TYPE_PAYMENT]
    ELSE IF ts = <<>> THEN ZeroOrderTask
    ELSE ts[Len(ts)]

\* lines 234-240: the first task of type PAYMENT, else the zero value
RECURSIVE SelectPaymentTask(_)
SelectPaymentTask(ts) ==
    IF ts = <<>> THEN ZeroOrderTask
    ELSE IF Head(ts).TaskType = ORDER_TASK_TYPE_PAYMENT THEN Head(ts)
    ELSE SelectPaymentTask(Tail(ts))

\* a guard that tests the wrong state
AlreadySuccessWrongState(t) == t.State = ORDER_TASK_STATE_FAILED

\* line 243
AlreadySuccess(t) == t.State = ORDER_TASK_STATE_SUCCESS

\* a terminal-state guard that forgets DONE
IsTerminalOrderStateWithoutDone(s) == s \in {ORDER_STATE_PAID, ORDER_STATE_CANCELLED}

\* lines 263-266
IsTerminalOrderState(s) ==
    s \in {ORDER_STATE_PAID, ORDER_STATE_CANCELLED, ORDER_STATE_DONE}

\* a fraud test that forgets the absent fraud status
FraudRejectedIgnoresAbsent(t) == ToLower(t.FraudStatus) # FraudStatusAccept

\* line 295
FraudRejected(t) ==
    t.FraudStatus # EmptyString /\ ToLower(t.FraudStatus) # FraudStatusAccept

\* lines 293-316: which arm of the switch the authoritative status selects
SuccessStatuses == {CaptureTransactionStatus, SettlementTransactionStatus}
FailedStatuses == {ExpireTransactionStatus, FailureTransactionStatus,
                   CancelTransactionStatus, DenyTransactionStatus}

\* a switch whose second arm forgets "deny"
SwitchArmWithoutDeny(t) ==
    IF ToLower(t.TransactionStatus) \in SuccessStatuses THEN "success"
    ELSE IF ToLower(t.TransactionStatus) \in FailedStatuses \ {DenyTransactionStatus}
         THEN "failed"
    ELSE "none"

\* a switch with a default arm that writes FAILED
SwitchArmDefaultFailed(t) ==
    IF ToLower(t.TransactionStatus) \in SuccessStatuses THEN "success" ELSE "failed"

SwitchArm(t) ==
    IF ToLower(t.TransactionStatus) \in SuccessStatuses THEN "success"
    ELSE IF ToLower(t.TransactionStatus) \in FailedStatuses THEN "failed"
    ELSE "none"

(***************************************************************************)
(* The task service applying a write.                                      *)
(***************************************************************************)
ApplyUpdate(ts, taskId, s) ==
    [i \in 1..Len(ts) |-> IF ts[i].TaskId = taskId THEN [ts[i] EXCEPT !.State = s] ELSE ts[i]]

\* the records of the call log
Call(op, arg, err) == [op |-> op, arg |-> arg, err |-> err]

\* the state of the payment task in a task list, NoTask when it has none
NoTask == "none"
PaymentTaskState(ts) ==
    IF \E i \in DOMAIN ts : ts[i].TaskType = ORDER_TASK_TYPE_PAYMENT
    THEN ts[CHOOSE i \in DOMAIN ts : ts[i].TaskType = ORDER_TASK_TYPE_PAYMENT].State
    ELSE NoTask

(***************************************************************************)
(* Package mileapp: the delivery callback, MileappHandlers.                *)
(* HandleStatusUpdate, its constants, inputs and pure parts.               *)
(***************************************************************************)
taskTypePicking == "picking"
taskTypePacking == "packing"
taskTypeShipping == "shipping"
taskTypeDelivery == "delivery"

statusOngoing == "ongoing"
statusDone == "done"

ORDER_TASK_TYPE_PICKING == "ORDER_TASK_TYPE_PICKING"
ORDER_TASK_TYPE_PACKING == "ORDER_TASK_TYPE_PACKING"
ORDER_TASK_TYPE_SHIPPING == "ORDER_TASK_TYPE_SHIPPING"

MileappErrTaskRefIDIsRequired == "taskRefId is required"
MileappErrStatusIsRequired == "taskStatus is required"
MileappErrOrderNumberIsRequired == "order number is required"
MileappErrInvalidStatus == "taskStatus is invalid"
MileappErrContenTypeIsRequired == "content-type is required"
MileappErrInvalidContentType == "invalid content-type"
MileappErrXAPIKeyIsRequired == "x-api-key is required"
MileappErrInvalidXAPIKey == "invalid x-api-key"

\* fmt.Errorf("unsupported task type: %s", task) and
\* fmt.Errorf("expecting http method post, got: %s", r.Method)
ErrUnsupportedTaskType(task) == "unsupported task type: " \o task
ErrExpectingPost(method) == "expecting http method post, got: " \o method

\* the handler's configuration (NewMileappHandlers)
authKey == "valid-x-api-key"

KnownOrderNumber == "12345"

\* the tasks of the order at the task service: a shipping and a delivery task
ShippingTask(s) ==
    [TaskId |-> <<"S","1">>, OrderId |-> KnownOrderNumber,
     TaskType |-> ORDER_TASK_TYPE_SHIPPING, State |-> s]
DeliveryTask(s) ==
    [TaskId |-> <<"D","1">>, OrderId |-> KnownOrderNumber,
     TaskType |-> ORDER_TASK_TYPE_DELIVERY, State |-> s]

MileappTaskLists ==
    { <<>> } \cup
    { <<ShippingTask(s), DeliveryTask(d)>> :
        s \in {ORDER_TASK_STATE_ONGOING, ORDER_TASK_STATE_SUCCESS},
        d \in {ORDER_TASK_STATE_ONGOING, ORDER_TASK_STATE_SUCCESS} }

\* HandleStatusUpdateRequest{}: the body did not decode
MileappZeroBody == [TaskRefID |-> "", TaskStatus |-> "", OrderNumber |-> ""]

MileappBodies ==
    [TaskRefID : {"", "1234"}, TaskStatus : {"", statusOngoing, statusDone, "whatever"},
     OrderNumber : {"", KnownOrderNumber}]

\* an HTTP request: the {task-type} variable of its URL, its method, its
\* content-type and x-api-key headers, whether its body decodes, the decoded body
MileappRequests ==
    LET Heads == [TaskType : {taskTypePicking, taskTypePacking, taskTypeShipping,
                              taskTypeDelivery, "returning"},
                  Method : {"POST", "GET"},
                  ContentType : {"", "application/json", "text/plain"},
                  APIKey : {"", authKey, "invalid-x-api-key"}]
    IN { [head |-> h, decodes |-> TRUE, body |-> b] : h \in Heads, b \in MileappBodies }
       \cup { [head |-> h, decodes |-> FALSE, body |-> MileappZeroBody] : h \in Heads }

MileappNoRequest ==
    [head |-> [TaskType |-> "", Method |-> "", ContentType |-> "", APIKey |-> ""],
     decodes |-> FALSE, body |-> MileappZeroBody]

\* lines 35-50: the task type named by the URL, Nil when it is not supported
TaskTypeOf(task) ==
    IF task = taskTypePicking THEN ORDER_TASK_TYPE_PICKING
    ELSE IF task = taskTypePacking THEN ORDER_TASK_TYPE_PACKING
    ELSE IF task = taskTypeShipping THEN ORDER_TASK_TYPE_SHIPPING
    ELSE IF task = taskTypeDelivery THEN ORDER_TASK_TYPE_DELIVERY
    ELSE Nil

\* a header check that tests the key before the content type
MileappValidateHeadersKeyFirst(ct, apiKey) ==
    IF apiKey = "" THEN MileappErrXAPIKeyIsRequired
    ELSE IF apiKey # authKey THEN MileappErrInvalidXAPIKey
    ELSE IF ct = "" THEN MileappErrContenTypeIsRequired
    ELSE IF ct # "application/json" THEN MileappErrInvalidContentType
    ELSE Nil

\* MileappHandlers.validateHeaders, lines 167-192
MileappValidateHeaders(ct, apiKey) ==
    IF ct = "" THEN MileappErrContenTypeIsRequired
    ELSE IF ct # "application/json" THEN MileappErrInvalidContentType
    ELSE IF apiKey = "" THEN MileappErrXAPIKeyIsRequired
    ELSE IF apiKey # authKey THEN MileappErrInvalidXAPIKey
    ELSE Nil

\* HandleStatusUpdateRequest.Validate, lines 217-235
Validate(h) ==
    IF h.TaskRefID = "" THEN MileappErrTaskRefIDIsRequired
    ELSE IF h.OrderNumber = "" THEN MileappErrOrderNumberIsRequired
    ELSE IF h.TaskStatus = "" THEN MileappErrStatusIsRequired
    ELSE IF h.TaskStatus \in {statusOngoing, statusDone} THEN Nil
    ELSE MileappErrInvalidStatus

\* lines 35-77: the message of the first check that fails, Nil when all pass
MileappLocalChecks(q) ==
    IF TaskTypeOf(q.head.TaskType) = Nil THEN ErrUnsupportedTaskType(q.head.TaskType)
    ELSE IF q.head.Method # "POST" THEN ErrExpectingPost(q.head.Method)
    ELSE IF MileappValidateHeaders(q.head.ContentType, q.head.APIKey) # Nil
         THEN MileappValidateHeaders(q.head.ContentType, q.head.APIKey)
    ELSE IF ~q.decodes THEN "invalid request data"
    ELSE Validate(q.body)

\* lines 94-100: the first task of the requested type, else the zero value
RECURSIVE SelectTask(_, _)
SelectTask(ts, taskType) ==
    IF ts = <<>> THEN ZeroOrderTask
    ELSE IF Head(ts).TaskType = taskType THEN Head(ts)
    ELSE SelectTask(Tail(ts), taskType)

\* a ToPB that maps taskStatus "ongoing" to the task state ONGOING
UpdateRequestOngoing(q, task) ==
    [TaskId |-> task.TaskId,
     State |-> IF q.body.TaskStatus = statusDone THEN ORDER_TASK_STATE_SUCCESS
               ELSE IF q.body.TaskStatus = statusOngoing THEN ORDER_TASK_STATE_ONGOING
               ELSE ORDER_TASK_STATE_UNSPECIFIED,
     AdditionalData |->
        IF task.TaskType = ORDER_TASK_TYPE_DELIVERY /\ q.body.TaskStatus = statusDone
        THEN "receiver"
        ELSE IF task.TaskType = ORDER_TASK_TYPE_SHIPPING /\ q.body.TaskStatus = statusOngoing
        THEN "driver"
        ELSE "none"]

\* lines 114-137: HandleStatusUpdateRequest.ToPB, the task id and the
\* additional data (named by what it carries)
UpdateRequest(q, task) ==
    [TaskId |-> task.TaskId,
     State |-> IF q.body.TaskStatus \in {statusOngoing, statusDone}
               THEN ORDER_TASK_STATE_SUCCESS ELSE ORDER_TASK_STATE_UNSPECIFIED,
     AdditionalData |->
        IF task.TaskType = ORDER_TASK_TYPE_DELIVERY /\ q.body.TaskStatus = statusDone
        THEN "receiver"
        ELSE IF task.TaskType = ORDER_TASK_TYPE_SHIPPING /\ q.body.TaskStatus = statusOngoing
        THEN "driver"
        ELSE "none"]

\* responseJSON, lines 151-164
responseJSON(statusCode, message) ==
    [StatusCode |-> statusCode, ContentType |-> "application/json", Message |-> message]

(***************************************************************************)
(* Package shoptree: the inventory callbacks, Handler.HandleStockUpdate    *)
(* and Handler.HandleProductStatusUpdate.                                  *)
(*                                                                         *)
(* A pointer (an element of the decoded array, a *float64, a *bool) is a   *)
(* sequence: <<>> is nil and <<x>> points to x.  The number in_stock is a  *)
(* record (see UpdateStockRequestToPB); quantity_changed, which the        *)
(* handler only tests for nil, is counted in tenths.                       *)
(***************************************************************************)
MaxBatch == 3

StatusMethodNotAllowed == 405

\* shoptree_test.go line 19: the key the handler is configured with
validAuthKey == "valid-x-client-api-key"

\* part_003 lines 15-28, the case list of part_002 lines 99-109
ListedReferenceTypes ==
    {"internal_order", "purchase_order", "transfer_order", "stock_take",
     "stock_adjustment", "preparation", "separation", "order", "order_modifier",
     "order_composite", "order_modifier_composite"}

\* UpdateStockRequest.Validate, part_003 lines 46-64
UpdateStockRequestValidate(u) ==
    IF u.ReferenceID = "" THEN "reference id is required"
    ELSE IF u.ReferenceType = "" THEN "reference type is required"
    ELSE IF u.LocationID = "" THEN "location id is required"
    ELSE IF u.ProductVariantID = "" THEN "product variant id is required"
    ELSE IF u.InStock = <<>> THEN "in stock is required"
    ELSE IF u.QuantityChanged = <<>> THEN "quantity changed is required"
    ELSE Nil

\* a conversion that forgets the test for decimal points
UpdateStockRequestToPBTruncating(u) ==
    { [err |-> Nil, StoreId |-> u.LocationID, ProductVariantId |-> u.ProductVariantID,
       Quantity |-> u.InStock[1].units, Source |-> "UPDATE_SOURCE_EXTERNAL"] }

\* UpdateStockRequest.ToPB, part_003 lines 67-79: the results it can give.
\* The float64 *u.InStock is a record [neg, e9, units, tenths] that stands for
\* the number (e9 * 10^9 + units + tenths / 10), negated when neg, with units
\* below 10^9 and tenths below 10.  math.Mod(*u.InStock, 1) is not 0 when
\* tenths is not 0.  int32(*u.InStock) is the number when it lies in
\* -2147483648..2147483647; when it does not, the Go specification leaves the
\* value to the implementation: amd64 gives -2147483648 and arm64 gives the
\* nearest bound, and the model offers these outcomes as a choice.
UpdateStockRequestToPB(u) ==
    LET x == u.InStock[1]
        inRange == \/ x.e9 < 2
                   \/ x.e9 = 2 /\ x.units <= 147483647
                   \/ x.e9 = 2 /\ x.units = 147483648 /\ x.neg
        quantities ==
            IF inRange
            THEN { IF x.neg THEN 0 - x.e9 * 1000000000 - x.units
                            ELSE x.e9 * 1000000000 + x.units }
            ELSE { -2147483647 - 1, IF x.neg THEN -2147483647 - 1 ELSE 2147483647 }
    IN  IF x.tenths # 0
        THEN { [err |-> "invalid in stock value", StoreId |-> "", ProductVariantId |-> "",
                Quantity |-> 0, Source |-> ""] }
        ELSE { [err |-> Nil, StoreId |-> u.LocationID,
                ProductVariantId |-> u.ProductVariantID,
                Quantity |-> q, Source |-> "UPDATE_SOURCE_EXTERNAL"] : q \in quantities }

\* UpdateProductStatusRequest.Validate, part_003 lines 82-94
UpdateProductStatusRequestValidate(u) ==
    IF u.LocationID = "" THEN "location id is required"
    ELSE IF u.ProductVariantID = "" THEN "product variant id is required"
    ELSE IF u.Enabled = <<>> THEN "enabled is required"
    ELSE Nil

\* UpdateProductStatusRequest.ToPB, part_003 lines 97-111
UpdateProductStatusRequestToPB(u) ==
    [StoreId |-> u.LocationID, ProductVariantId |-> u.ProductVariantID,
     Status |-> IF u.Enabled[1] THEN "PRODUCT_STATUS_ENABLED" ELSE "PRODUCT_STATUS_DISABLED",
     Source |-> "UPDATE_SOURCE_EXTERNAL"]

\* a validateHeaders that looks at the key before the content type
shoptreeValidateHeadersKeyFirst(ct, apiKey) ==
    IF apiKey = "" THEN "x client api key is required"
    ELSE IF apiKey # validAuthKey THEN "invalid x client api key"
    ELSE IF ct = "" THEN "content type is required"
    ELSE IF ct # "application/json" THEN "content type should be application/json"
    ELSE Nil

\* validateHeaders, part_003 lines 136-160
shoptreeValidateHeaders(ct, apiKey) ==
    IF ct = "" THEN "content type is required"
    ELSE IF ct # "application/json" THEN "content type should be application/json"
    ELSE IF apiKey = "" THEN "x client api key is required"
    ELSE IF apiKey # validAuthKey THEN "invalid x client api key"
    ELSE Nil

\* responseJSON, part_003 lines 118-133
shoptreeResponseJSON(code, message) ==
    [StatusCode |-> code, ContentType |-> "application/json", Message |-> message]

\* the checks an UpdateStockRequest fails, numbered in the order the handler
\* makes them: the six of Validate, the reference type, the decimals of in_stock
StockFlaws(u) ==
    { i \in 1..8 :
        \/ i = 1 /\ u.ReferenceID = ""
        \/ i = 2 /\ u.ReferenceType = ""
        \/ i = 3 /\ u.LocationID = ""
        \/ i = 4 /\ u.ProductVariantID = ""
        \/ i = 5 /\ u.InStock = <<>>
        \/ i = 6 /\ u.QuantityChanged = <<>>
        \/ i = 7 /\ u.ReferenceType \notin ListedReferenceTypes \cup {""}
        \/ i = 8 /\ u.InStock # <<>> /\ u.InStock[1].tenths # 0 }

\* the stock items of the model: the valid ones, and those failing one check
\* or two consecutive ones
StockItems ==
    { u \in [ReferenceID : {"", "valid-reference-id"},
             ReferenceType : {"", "order", "stock_adjustment", "return"},
             LocationID : {"", "valid-location-id"},
             ProductVariantID : {"", "valid-product-variant-id"},
             \* in_stock absent, 1, 1.5 and 3000000000
             InStock : {<<>>,
                        << [neg |-> FALSE, e9 |-> 0, units |-> 1, tenths |-> 0] >>,
                        << [neg |-> FALSE, e9 |-> 0, units |-> 1, tenths |-> 5] >>,
                        << [neg |-> FALSE, e9 |-> 3, units |-> 0, tenths |-> 0] >>},
             QuantityChanged : {<<>>, <<-10>>}] :
        \A i, j \in StockFlaws(u) : j - i <= 1 }

StatusItems ==
    [LocationID : {"", "valid-location-id"},
     ProductVariantID : {"", "valid-product-variant-id"},
     Enabled : {<<>>, <<TRUE>>, <<FALSE>>}]

\* the elements a JSON array can hold for handler h: null, or an object
Elements(h) ==
    {<<>>} \cup { <<u>> : u \in IF h = "stock" THEN StockItems ELSE StatusItems }

\* the arrays sent behind every combination of method and headers: the empty
\* one and those of one valid object
ShortBatches(h) ==
    { <<>> } \cup
    { <<e>> : e \in { d \in Elements(h) \ {<<>>} :
                        /\ d[1].LocationID # "" /\ d[1].ProductVariantID # ""
                        /\ h = "stock" => StockFlaws(d[1]) = {}
                        /\ h = "status" => d[1].Enabled # <<>> } }

ShoptreeNoRequest ==
    [handler |-> "", Method |-> "", ContentType |-> "", APIKey |-> "",
     decodes |-> FALSE, data |-> <<>>]

(***************************************************************************)
(* Initial state: no request in flight.                                    *)
(***************************************************************************)
MidtransIdle ==
    /\ pc = [r \in Reqs |-> "idle"]
    /\ req = [r \in Reqs |-> NoRequest]
    /\ trx = [r \in Reqs |-> NoTransaction]
    /\ orderTask = [r \in Reqs |-> ZeroOrderTask]
    /\ resp = [r \in Reqs |-> 0]
    /\ calls = [r \in Reqs |-> <<>>]
    /\ taskAtReceipt = [r \in Reqs |-> NoTask]
    /\ written = [r \in Reqs |-> <<>>]
    /\ checks = [r \in Reqs |-> <<>>]
    /\ expired = [r \in Reqs |-> FALSE]
    /\ elapsedAt = [r \in Reqs |-> 0]

\* no callback has been served yet
MileappNoPrevious == [req |-> MileappNoRequest, calls |-> <<>>]

MileappIdle ==
    /\ mPc = "idle"
    /\ mReq = MileappNoRequest
    /\ mOrderTask = ZeroOrderTask
    /\ mWritten = <<>>
    /\ mCalls = <<>>
    /\ mPrev = MileappNoPrevious

ShoptreeIdle ==
    /\ sPc = "idle"
    /\ sReq = ShoptreeNoRequest
    /\ sIdx = 1
    /\ sWritten = <<>>
    /\ sCalls = <<>>

\* the server is serving: no signal has arrived
MainIdle ==
    /\ mainPc = "listen"
    /\ sigPc = "sigint"
    /\ active = 0
    /\ elapsed = 0
    /\ idleConnsClosed = FALSE
    /\ lasErr = "none"
    /\ shutdownErr = "none"

\* the payment callback is served; no other callback arrives
Init ==
    /\ tasks \in TaskLists
    /\ orderState \in OrderStates
    /\ MidtransIdle
    /\ mTasks = <<>>
    /\ MileappIdle
    /\ ShoptreeIdle
    /\ MainIdle

\* writeJSONResponse(w, code); return
Respond(r, code) ==
    /\ resp' = [resp EXCEPT ![r] = code]
    /\ written' = [written EXCEPT ![r] = Append(@, writeJSONResponse(code))]
    /\ pc' = [pc EXCEPT ![r] = "done"]

\* the HTTP server hands a request to the handler
ReceiveNotification(r) ==
    /\ pc[r] = "idle"
    /\ \E q \in Requests : req' = [req EXCEPT ![r] = q]
    /\ pc' = [pc EXCEPT ![r] = "start"]
    /\ taskAtReceipt' = [taskAtReceipt EXCEPT ![r] = PaymentTaskState(tasks)]
    /\ UNCHANGED <<tasks, orderState, trx, orderTask, resp, calls, written, checks,
                   expired, elapsedAt, mileappVars, shoptreeVars, mainVars>>

\* the handler has returned and the response is sent: the request, its
\* locals and its context are gone
Return(r) ==
    /\ pc[r] \in {"done", "panic"}
    /\ pc' = [pc EXCEPT ![r] = "idle"]
    /\ req' = [req EXCEPT ![r] = NoRequest]
    /\ trx' = [trx EXCEPT ![r] = NoTransaction]
    /\ orderTask' = [orderTask EXCEPT ![r] = ZeroOrderTask]
    /\ resp' = [resp EXCEPT ![r] = 0]
    /\ calls' = [calls EXCEPT ![r] = <<>>]
    /\ taskAtReceipt' = [taskAtReceipt EXCEPT ![r] = NoTask]
    /\ written' = [written EXCEPT ![r] = <<>>]
    /\ checks' = [checks EXCEPT ![r] = <<>>]
    /\ expired' = [expired EXCEPT ![r] = FALSE]
    /\ elapsedAt' = [elapsedAt EXCEPT ![r] = 0]
    /\ UNCHANGED <<tasks, orderState, mileappVars, shoptreeVars, mainVars>>

\* lines 163-211
CheckNotification(r) ==
    /\ pc[r] = "start"
    /\ \E newTransactionErr \in BOOLEAN :
         LET code == LocalChecks(req[r], newTransactionErr) IN
           /\ checks' = [checks EXCEPT ![r] = ChecksRun(req[r], newTransactionErr)]
           /\ IF code # 0
              THEN Respond(r, code)
              ELSE /\ pc' = [pc EXCEPT ![r] = "getStatus"]
                   /\ UNCHANGED <<resp, written>>
    /\ UNCHANGED <<tasks, orderState, req, trx, orderTask, calls, taskAtReceipt,
                   expired, elapsedAt, mileappVars, shoptreeVars, mainVars>>

\* a lookup failure answered with 500
GetTransactionStatusAnswers500(r) ==
    /\ pc[r] = "getStatus"
    /\ \/ /\ calls' = [calls EXCEPT ![r] =
                          Append(@, Call("GetTransactionStatus", req[r].body.OrderID, TRUE))]
          /\ Respond(r, StatusInternalServerError)
          /\ UNCHANGED trx
       \/ \E t \in Transactions :
          /\ calls' = [calls EXCEPT ![r] =
                          Append(@, Call("GetTransactionStatus", req[r].body.OrderID, FALSE))]
          /\ trx' = [trx EXCEPT ![r] = t]
          /\ pc' = [pc EXCEPT ![r] = "getTask"]
          /\ UNCHANGED <<resp, written>>
    /\ UNCHANGED <<tasks, orderState, req, orderTask, taskAtReceipt, checks,
                   expired, elapsedAt, mileappVars, shoptreeVars, mainVars>>

\* lines 213-222
GetTransactionStatus(r) ==
    /\ pc[r] = "getStatus"
    /\ \/ /\ calls' = [calls EXCEPT ![r] =
                          Append(@, Call("GetTransactionStatus", req[r].body.OrderID, TRUE))]
          /\ Respond(r, StatusBadRequest)
          /\ UNCHANGED trx
       \/ \E t \in Transactions :
          /\ calls' = [calls EXCEPT ![r] =
                          Append(@, Call("GetTransactionStatus", req[r].body.OrderID, FALSE))]
          /\ trx' = [trx EXCEPT ![r] = t]
          /\ pc' = [pc EXCEPT ![r] = "getTask"]
          /\ UNCHANGED <<resp, written>>
    /\ UNCHANGED <<tasks, orderState, req, orderTask, taskAtReceipt, checks,
                   expired, elapsedAt, mileappVars, shoptreeVars, mainVars>>

\* a handler that fetches the order before looking at the task's state
GetOrderTaskWithoutGuard(r) ==
    /\ pc[r] = "getTask"
    /\ \/ /\ calls' = [calls EXCEPT ![r] =
                          Append(@, Call("GetOrderTask", req[r].body.OrderID, TRUE))]
          /\ Respond(r, StatusInternalServerError)
          /\ UNCHANGED orderTask
       \/ /\ req[r].body.OrderID = KnownTaskID
          /\ ~expired[r]
          /\ calls' = [calls EXCEPT ![r] =
                          Append(@, Call("GetOrderTask", req[r].body.OrderID, FALSE))]
          /\ orderTask' = [orderTask EXCEPT ![r] = SelectPaymentTask(tasks)]
          /\ pc' = [pc EXCEPT ![r] = "getOrder"]
          /\ UNCHANGED <<resp, written>>
    /\ UNCHANGED <<tasks, orderState, req, trx, taskAtReceipt, checks,
                   expired, elapsedAt, mileappVars, shoptreeVars, mainVars>>

\* a GetOrderTask that waits while another request is between its own read
\* of the task and its response
GetOrderTaskExclusive(r) ==
    /\ pc[r] = "getTask"
    /\ \A o \in Reqs \ {r} : pc[o] \notin {"getOrder", "switch", "success"}
    /\ \/ /\ calls' = [calls EXCEPT ![r] =
                          Append(@, Call("GetOrderTask", req[r].body.OrderID, TRUE))]
          /\ Respond(r, StatusInternalServerError)
          /\ UNCHANGED orderTask
       \/ /\ req[r].body.OrderID = KnownTaskID
          /\ ~expired[r]
          /\ calls' = [calls EXCEPT ![r] =
                          Append(@, Call("GetOrderTask", req[r].body.OrderID, FALSE))]
          /\ orderTask' = [orderTask EXCEPT ![r] = SelectPaymentTask(tasks)]
          /\ IF AlreadySuccess(SelectPaymentTask(tasks))
             THEN Respond(r, StatusOK)
             ELSE /\ pc' = [pc EXCEPT ![r] = "getOrder"]
                  /\ UNCHANGED <<resp, written>>
    /\ UNCHANGED <<tasks, orderState, req, trx, taskAtReceipt, checks,
                   expired, elapsedAt, mileappVars, shoptreeVars, mainVars>>

\* lines 224-247
GetOrderTask(r) ==
    /\ pc[r] = "getTask"
    /\ \/ /\ calls' = [calls EXCEPT ![r] =
                          Append(@, Call("GetOrderTask", req[r].body.OrderID, TRUE))]
          /\ Respond(r, StatusInternalServerError)
          /\ UNCHANGED orderTask
       \/ /\ req[r].body.OrderID = KnownTaskID
          /\ ~expired[r]
          /\ calls' = [calls EXCEPT ![r] =
                          Append(@, Call("GetOrderTask", req[r].body.OrderID, FALSE))]
          /\ orderTask' = [orderTask EXCEPT ![r] = SelectPaymentTask(tasks)]
          /\ IF AlreadySuccess(SelectPaymentTask(tasks))
             THEN Respond(r, StatusOK)
             ELSE /\ pc' = [pc EXCEPT ![r] = "getOrder"]
                  /\ UNCHANGED <<resp, written>>
    /\ UNCHANGED <<tasks, orderState, req, trx, taskAtReceipt, checks,
                   expired, elapsedAt, mileappVars, shoptreeVars, mainVars>>

\* a handler that goes on to the status switch when the order Get fails
GetOrderIgnoresError(r) ==
    /\ pc[r] = "getOrder"
    /\ \/ /\ calls' = [calls EXCEPT ![r] = Append(@, Call("Get", orderTask[r].OrderId, TRUE))]
          /\ pc' = [pc EXCEPT ![r] = "switch"]
          /\ UNCHANGED <<resp, written>>
       \/ \E s \in OrderStates :
          /\ orderTask[r].OrderId = KnownOrderID => s = orderState
          /\ ~expired[r]
          /\ calls' = [calls EXCEPT ![r] =
                          Append(@, Call("Get", <<orderTask[r].OrderId, s>>, FALSE))]
          /\ IF IsTerminalOrderState(s)
             THEN Respond(r, StatusBadRequest)
             ELSE /\ pc' = [pc EXCEPT ![r] = "switch"]
                  /\ UNCHANGED <<resp, written>>
    /\ UNCHANGED <<tasks, orderState, req, trx, orderTask, taskAtReceipt, checks,
                   expired, elapsedAt, mileappVars, shoptreeVars, mainVars>>

\* lines 253-273.  An answer without error and without an order
\* (GetOrderData() or its Order is nil, recorded as the state "nil") makes
\* line 259 or 263 dereference nil: the handler panics, net/http recovers the
\* panic and closes the connection, and nothing is written.
GetOrder(r) ==
    /\ pc[r] = "getOrder"
    /\ \/ /\ calls' = [calls EXCEPT ![r] = Append(@, Call("Get", orderTask[r].OrderId, TRUE))]
          /\ Respond(r, StatusInternalServerError)
       \/ /\ ~expired[r]
          /\ calls' = [calls EXCEPT ![r] =
                          Append(@, Call("Get", <<orderTask[r].OrderId, "nil">>, FALSE))]
          /\ pc' = [pc EXCEPT ![r] = "panic"]
          /\ UNCHANGED <<resp, written>>
       \/ \E s \in OrderStates :
          \* the order service answers for the order it holds; what it answers
          \* for another id (the zero-value task's) is not known
          /\ orderTask[r].OrderId = KnownOrderID => s = orderState
          /\ ~expired[r]
          /\ calls' = [calls EXCEPT ![r] =
                          Append(@, Call("Get", <<orderTask[r].OrderId, s>>, FALSE))]
          /\ IF IsTerminalOrderState(s)
             THEN Respond(r, StatusBadRequest)
             ELSE /\ pc' = [pc EXCEPT ![r] = "switch"]
                  /\ UNCHANGED <<resp, written>>
    /\ UNCHANGED <<tasks, orderState, req, trx, orderTask, taskAtReceipt, checks,
                   expired, elapsedAt, mileappVars, shoptreeVars, mainVars>>

\* an UpdateOrderTask call that is not bound to the request's context
updateFnWithoutContext(r, s, ok) ==
    /\ calls' = [calls EXCEPT ![r] =
                    Append(@, Call("UpdateOrderTask", <<orderTask[r].TaskId, s>>, ~ok))]
    /\ tasks' = IF ok THEN ApplyUpdate(tasks, orderTask[r].TaskId, s) ELSE tasks

\* lines 281-291: one UpdateOrderTask call; the task service applies it when
\* it answers without error.  Like GetOrderTask and Get it is given ctx: once
\* the deadline has elapsed it can only return an error.
updateFn(r, s, ok) ==
    /\ expired[r] => ~ok
    /\ calls' = [calls EXCEPT ![r] =
                    Append(@, Call("UpdateOrderTask", <<orderTask[r].TaskId, s>>, ~ok))]
    /\ tasks' = IF ok THEN ApplyUpdate(tasks, orderTask[r].TaskId, s) ELSE tasks

\* a switch whose fraud arm lacks the return after a failed update
SwitchTransactionStatusNoReturn(r) ==
    /\ pc[r] = "switch"
    /\ LET arm == SwitchArm(trx[r]) IN
         \/ /\ arm = "success"
            /\ FraudRejected(trx[r])
            /\ \E ok \in BOOLEAN : updateFn(r, ORDER_TASK_STATE_FAILED, ok)
            /\ pc' = [pc EXCEPT ![r] = "success"]
            /\ UNCHANGED <<resp, written>>
         \/ /\ arm = "success"
            /\ ~FraudRejected(trx[r])
            /\ pc' = [pc EXCEPT ![r] = "success"]
            /\ UNCHANGED <<resp, written, calls, tasks>>
         \/ /\ arm = "failed"
            /\ \E ok \in BOOLEAN :
                 /\ updateFn(r, ORDER_TASK_STATE_FAILED, ok)
                 /\ Respond(r, IF ok THEN StatusOK ELSE StatusInternalServerError)
         \/ /\ arm = "none"
            /\ Respond(r, StatusOK)
            /\ UNCHANGED <<calls, tasks>>
    /\ UNCHANGED <<orderState, req, trx, orderTask, taskAtReceipt, checks,
                   expired, elapsedAt, mileappVars, shoptreeVars, mainVars>>

\* a switch whose second arm falls through to the SUCCESS write
SwitchTransactionStatusFallthrough(r) ==
    /\ pc[r] = "switch"
    /\ LET arm == SwitchArm(trx[r]) IN
         \/ /\ arm = "success"
            /\ FraudRejected(trx[r])
            /\ \E ok \in BOOLEAN :
                 /\ updateFn(r, ORDER_TASK_STATE_FAILED, ok)
                 /\ IF ok
                    THEN pc' = [pc EXCEPT ![r] = "success"] /\ UNCHANGED <<resp, written>>
                    ELSE Respond(r, StatusInternalServerError)
         \/ /\ arm = "success"
            /\ ~FraudRejected(trx[r])
            /\ pc' = [pc EXCEPT ![r] = "success"]
            /\ UNCHANGED <<resp, written, calls, tasks>>
         \/ /\ arm = "failed"
            /\ \E ok \in BOOLEAN :
                 /\ updateFn(r, ORDER_TASK_STATE_FAILED, ok)
                 /\ IF ok
                    THEN pc' = [pc EXCEPT ![r] = "success"] /\ UNCHANGED <<resp, written>>
                    ELSE Respond(r, StatusInternalServerError)
         \/ /\ arm = "none"
            /\ Respond(r, StatusOK)
            /\ UNCHANGED <<calls, tasks>>
    /\ UNCHANGED <<orderState, req, trx, orderTask, taskAtReceipt, checks,
                   expired, elapsedAt, mileappVars, shoptreeVars, mainVars>>

\* a switch on the notification's own status and fraud status
SwitchTransactionStatusInbound(r) ==
    /\ pc[r] = "switch"
    /\ LET inbound == [TransactionStatus |-> req[r].body.TransactionStatus,
                       FraudStatus |-> req[r].body.FraudStatus]
           arm == SwitchArm(inbound) IN
         \/ /\ arm = "success"
            /\ FraudRejected(inbound)
            /\ \E ok \in BOOLEAN :
                 /\ updateFn(r, ORDER_TASK_STATE_FAILED, ok)
                 /\ IF ok
                    THEN pc' = [pc EXCEPT ![r] = "success"] /\ UNCHANGED <<resp, written>>
                    ELSE Respond(r, StatusInternalServerError)
         \/ /\ arm = "success"
            /\ ~FraudRejected(inbound)
            /\ pc' = [pc EXCEPT ![r] = "success"]
            /\ UNCHANGED <<resp, written, calls, tasks>>
         \/ /\ arm = "failed"
            /\ \E ok \in BOOLEAN :
                 /\ updateFn(r, ORDER_TASK_STATE_FAILED, ok)
                 /\ Respond(r, IF ok THEN StatusOK ELSE StatusInternalServerError)
         \/ /\ arm = "none"
            /\ Respond(r, StatusOK)
            /\ UNCHANGED <<calls, tasks>>
    /\ UNCHANGED <<orderState, req, trx, orderTask, taskAtReceipt, checks,
                   expired, elapsedAt, mileappVars, shoptreeVars, mainVars>>

\* lines 293-301 and 309-319: the switch up to its first UpdateOrderTask call
SwitchTransactionStatus(r) ==
    /\ pc[r] = "switch"
    /\ LET arm == SwitchArm(trx[r]) IN
         \/ /\ arm = "success"
            /\ FraudRejected(trx[r])
            /\ \E ok \in BOOLEAN :
                 /\ updateFn(r, ORDER_TASK_STATE_FAILED, ok)
                 /\ IF ok
                    THEN pc' = [pc EXCEPT ![r] = "success"] /\ UNCHANGED <<resp, written>>
                    ELSE Respond(r, StatusInternalServerError)
         \/ /\ arm = "success"
            /\ ~FraudRejected(trx[r])
            /\ pc' = [pc EXCEPT ![r] = "success"]
            /\ UNCHANGED <<resp, written, calls, tasks>>
         \/ /\ arm = "failed"
            /\ \E ok \in BOOLEAN :
                 /\ updateFn(r, ORDER_TASK_STATE_FAILED, ok)
                 /\ Respond(r, IF ok THEN StatusOK ELSE StatusInternalServerError)
         \/ /\ arm = "none"
            /\ Respond(r, StatusOK)
            /\ UNCHANGED <<calls, tasks>>
    /\ UNCHANGED <<orderState, req, trx, orderTask, taskAtReceipt, checks,
                   expired, elapsedAt, mileappVars, shoptreeVars, mainVars>>

\* lines 303-308 and 318-319
UpdateSuccess(r) ==
    /\ pc[r] = "success"
    /\ \E ok \in BOOLEAN :
         /\ updateFn(r, ORDER_TASK_STATE_SUCCESS, ok)
         /\ Respond(r, IF ok THEN StatusOK ELSE StatusInternalServerError)
    /\ UNCHANGED <<orderState, req, trx, orderTask, taskAtReceipt, checks,
                   expired, elapsedAt, mileappVars, shoptreeVars, mainVars>>

\* Handler.HandleTransactionUpdate, step by step
HandleTransactionUpdate(r) ==
    \/ CheckNotification(r)
    \/ GetTransactionStatus(r)
    \/ GetOrderTask(r)
    \/ GetOrder(r)
    \/ SwitchTransactionStatus(r)
    \/ UpdateSuccess(r)

\* requests served one after the other
Next ==
    \E r \in {1} : ReceiveNotification(r) \/ HandleTransactionUpdate(r) \/ Return(r)

Spec == Init /\ [][Next]_vars

(***************************************************************************)
(* The deadline of lines 166-167: ctx is cancelled defaultContextTimeout   *)
(* after the handler started.  The handler's local steps take no time to   *)
(* speak of: the deadline elapses while the handler is in one of its       *)
(* external calls.                                                         *)
(***************************************************************************)
Timeout(r) ==
    /\ pc[r] \in {"getStatus", "getTask", "getOrder", "switch", "success"}
    /\ ~expired[r]
    /\ expired' = [expired EXCEPT ![r] = TRUE]
    /\ elapsedAt' = [elapsedAt EXCEPT ![r] = Len(calls[r]) + 1]
    /\ UNCHANGED <<tasks, orderState, pc, req, trx, orderTask, resp, calls, taskAtReceipt,
                   written, checks, mileappVars, shoptreeVars, mainVars>>

NextDeadline ==
    \E r \in {1} :
        ReceiveNotification(r) \/ HandleTransactionUpdate(r) \/ Return(r) \/ Timeout(r)

SpecDeadline == Init /\ [][NextDeadline]_vars

(***************************************************************************)
(* Two requests in flight together: net/http runs the handler of each      *)
(* request on its own goroutine, and the handler takes no lock.  The steps *)
(* of the two requests interleave at their external calls.  The inputs are *)
(* narrowed to the notifications above, to an order that has its payment   *)
(* task, and to a few answers of the provider.                             *)
(***************************************************************************)
ConcurrentTransactions ==
    [TransactionStatus : {SettlementTransactionStatus, DenyTransactionStatus,
                          RefundTransactionStatus},
     FraudStatus : {EmptyString, DenyTransactionStatus}]

InitConcurrent ==
    /\ Init
    /\ tasks \in { <<PaymentTask(s)>> : s \in {ORDER_TASK_STATE_ONGOING, ORDER_TASK_STATE_SUCCESS} }
    /\ orderState \in {ORDER_STATE_PENDING, ORDER_STATE_DONE}

ReceiveConcurrent(r) ==
    ReceiveNotification(r) /\ req'[r] \in ConcurrentRequests

GetTransactionStatusConcurrent(r) ==
    GetTransactionStatus(r) /\ trx'[r] \in ConcurrentTransactions \cup {NoTransaction}

NextConcurrent ==
    \E r \in Reqs :
        \/ ReceiveConcurrent(r)
        \/ CheckNotification(r)
        \/ GetTransactionStatusConcurrent(r)
        \/ GetOrderTask(r)
        \/ GetOrder(r)
        \/ SwitchTransactionStatus(r)
        \/ UpdateSuccess(r)
        \/ Return(r)

SpecConcurrent == InitConcurrent /\ [][NextConcurrent]_vars

(***************************************************************************)
(* MileappHandlers.HandleStatusUpdate, step by step.  The handler uses the *)
(* request's own context, without a deadline of its own.                   *)
(***************************************************************************)
MileappRespond(statusCode, message) ==
    /\ mWritten' = Append(mWritten, responseJSON(statusCode, message))
    /\ mPc' = "done"

\* the HTTP server hands a request to the handler
MileappReceive ==
    /\ mPc = "idle"
    /\ \E q \in MileappRequests : mReq' = q
    /\ mPc' = "start"
    /\ UNCHANGED <<mTasks, mOrderTask, mWritten, mCalls, mPrev, midtransVars, shoptreeVars, mainVars>>

\* the handler has returned
MileappReturn ==
    /\ mPc = "done"
    /\ mPc' = "idle"
    /\ mReq' = MileappNoRequest
    /\ mOrderTask' = ZeroOrderTask
    /\ mWritten' = <<>>
    /\ mCalls' = <<>>
    /\ mPrev' = IF MileappLocalChecks(mReq) = Nil
                THEN [req |-> mReq, calls |-> mCalls]
                ELSE MileappNoPrevious
    /\ UNCHANGED <<mTasks, midtransVars, shoptreeVars, mainVars>>

\* lines 30-77
MileappCheck ==
    /\ mPc = "start"
    /\ IF MileappLocalChecks(mReq) # Nil
       THEN MileappRespond(StatusBadRequest, MileappLocalChecks(mReq))
       ELSE mPc' = "getTask" /\ UNCHANGED mWritten
    /\ UNCHANGED <<mTasks, mReq, mOrderTask, mCalls, mPrev, midtransVars, shoptreeVars, mainVars>>

\* a handler without the duplicate guard of lines 106-112
MileappGetOrderTaskNoGuard ==
    /\ mPc = "getTask"
    /\ \/ /\ mCalls' = Append(mCalls, Call("GetOrderTask", mReq.body.OrderNumber, TRUE))
          /\ MileappRespond(StatusInternalServerError, "failed to update order task")
          /\ UNCHANGED mOrderTask
       \/ /\ mReq.body.OrderNumber = KnownOrderNumber
          /\ mCalls' = Append(mCalls, Call("GetOrderTask", mReq.body.OrderNumber, FALSE))
          /\ mOrderTask' = SelectTask(mTasks, TaskTypeOf(mReq.head.TaskType))
          /\ mPc' = "update" /\ UNCHANGED mWritten
    /\ UNCHANGED <<mTasks, mReq, mPrev, midtransVars, shoptreeVars, mainVars>>

\* lines 85-112
MileappGetOrderTask ==
    /\ mPc = "getTask"
    /\ \/ /\ mCalls' = Append(mCalls, Call("GetOrderTask", mReq.body.OrderNumber, TRUE))
          /\ MileappRespond(StatusInternalServerError, "failed to update order task")
          /\ UNCHANGED mOrderTask
       \/ LET t == SelectTask(mTasks, TaskTypeOf(mReq.head.TaskType)) IN
          /\ mReq.body.OrderNumber = KnownOrderNumber
          /\ mCalls' = Append(mCalls, Call("GetOrderTask", mReq.body.OrderNumber, FALSE))
          /\ mOrderTask' = t
          /\ IF AlreadySuccess(t)
             THEN MileappRespond(StatusOK, "success")
             ELSE mPc' = "update" /\ UNCHANGED mWritten
    /\ UNCHANGED <<mTasks, mReq, mPrev, midtransVars, shoptreeVars, mainVars>>

\* lines 114-147
MileappUpdateOrderTask ==
    /\ mPc = "update"
    /\ \E ok \in BOOLEAN :
         /\ mCalls' = Append(mCalls,
                Call("UpdateOrderTask", UpdateRequest(mReq, mOrderTask), ~ok))
         /\ mTasks' = IF ok
                      THEN ApplyUpdate(mTasks, mOrderTask.TaskId,
                                       UpdateRequest(mReq, mOrderTask).State)
                      ELSE mTasks
         /\ IF ok
            THEN MileappRespond(StatusOK, "success")
            ELSE MileappRespond(StatusInternalServerError, "failed to update order task")
    /\ UNCHANGED <<mReq, mOrderTask, mPrev, midtransVars, shoptreeVars, mainVars>>

\* the delivery callback is served; no payment notification arrives
InitMileapp ==
    /\ tasks = <<>>
    /\ orderState = ORDER_STATE_PENDING
    /\ MidtransIdle
    /\ mTasks \in MileappTaskLists
    /\ MileappIdle
    /\ ShoptreeIdle
    /\ MainIdle

\* MileappCheck, MileappGetOrderTask and MileappUpdateOrderTask are the
\* steps of HandleStatusUpdate
NextMileapp ==
    \/ MileappReceive
    \/ MileappCheck
    \/ MileappGetOrderTask
    \/ MileappUpdateOrderTask
    \/ MileappReturn

SpecMileapp == InitMileapp /\ [][NextMileapp]_vars

(***************************************************************************)
(* Package shoptree: the two inventory callbacks.  A request is served in  *)
(* steps: the request-level checks, then one step per element of the       *)
(* array, then the final response.                                         *)
(***************************************************************************)
ShoptreeRespond(code, message) ==
    /\ sWritten' = Append(sWritten, shoptreeResponseJSON(code, message))
    /\ sPc' = "done"

\* the HTTP server hands a request to one of the two handlers: any array of
\* at most MaxBatch elements behind valid headers, or a short array behind any
\* combination of method, headers and decode outcome
ShoptreeReceive ==
    /\ sPc = "idle"
    /\ \E h \in {"stock", "status"} :
         \/ \E n \in 0..MaxBatch : \E d \in [1..n -> Elements(h)] :
               sReq' = [handler |-> h, Method |-> "POST",
                        ContentType |-> "application/json", APIKey |-> validAuthKey,
                        decodes |-> TRUE, data |-> d]
         \/ \E m \in {"POST", "GET"},
               ct \in {"", "application/json", "multipart/form-data"},
               k \in {"", validAuthKey, "invalid-client-api-key"},
               dec \in BOOLEAN :
               \E d \in IF dec THEN ShortBatches(h) ELSE { <<>> } :
                 sReq' = [handler |-> h, Method |-> m, ContentType |-> ct,
                          APIKey |-> k, decodes |-> dec, data |-> d]
    /\ sPc' = "start"
    /\ UNCHANGED <<sIdx, sWritten, sCalls, midtransVars, mileappVars, mainVars>>

\* the handler has returned, or the server has recovered its panic
ShoptreeReturn ==
    /\ sPc \in {"done", "panic"}
    /\ sPc' = "idle"
    /\ sReq' = ShoptreeNoRequest
    /\ sIdx' = 1
    /\ sWritten' = <<>>
    /\ sCalls' = <<>>
    /\ UNCHANGED <<midtransVars, mileappVars, mainVars>>

\* part_002 lines 43-77 and 162-196: method, headers, decoding of the body
ShoptreeCheck ==
    /\ sPc = "start"
    /\ IF sReq.Method # "POST"
       THEN ShoptreeRespond(StatusMethodNotAllowed,
                            "expecting http method post, got: " \o sReq.Method)
       ELSE IF shoptreeValidateHeaders(sReq.ContentType, sReq.APIKey) # Nil
       THEN ShoptreeRespond(StatusBadRequest,
                            shoptreeValidateHeaders(sReq.ContentType, sReq.APIKey))
       ELSE IF ~sReq.decodes
       THEN ShoptreeRespond(StatusBadRequest, "invalid request data")
       ELSE sPc' = "loop" /\ UNCHANGED sWritten
    /\ UNCHANGED <<sReq, sIdx, sCalls, midtransVars, mileappVars, mainVars>>

\* part_002 lines 79-151: one iteration of the loop of HandleStockUpdate.  The
\* logger fields of lines 81-84 dereference the element: a null one panics.
StockItem ==
    /\ sPc = "loop" /\ sReq.handler = "stock"
    /\ sIdx <= Len(sReq.data)
    /\ IF sReq.data[sIdx] = <<>>
       THEN sPc' = "panic" /\ UNCHANGED <<sIdx, sWritten, sCalls>>
       ELSE LET u == sReq.data[sIdx][1] IN
            IF UpdateStockRequestValidate(u) # Nil
            THEN /\ ShoptreeRespond(StatusBadRequest, UpdateStockRequestValidate(u))
                 /\ UNCHANGED <<sIdx, sCalls>>
            ELSE IF u.ReferenceType \notin ListedReferenceTypes
            THEN /\ ShoptreeRespond(StatusBadRequest, "invalid reference type")
                 /\ UNCHANGED <<sIdx, sCalls>>
            ELSE \E pb \in UpdateStockRequestToPB(u) :
                 IF pb.err # Nil
                 THEN /\ ShoptreeRespond(StatusBadRequest, pb.err)
                      /\ UNCHANGED <<sIdx, sCalls>>
                 ELSE \E ok \in BOOLEAN :
                      /\ sCalls' = Append(sCalls, Call("UpdateStock", pb, ~ok))
                      /\ IF ok
                         THEN sIdx' = sIdx + 1 /\ UNCHANGED <<sPc, sWritten>>
                         ELSE /\ ShoptreeRespond(StatusInternalServerError,
                                                 "failed to update stock")
                              /\ UNCHANGED sIdx
    /\ UNCHANGED <<sReq, midtransVars, mileappVars, mainVars>>

\* a loop that goes on to the next element when the call for one has failed
StatusItemContinues ==
    /\ sPc = "loop" /\ sReq.handler = "status"
    /\ sIdx <= Len(sReq.data)
    /\ IF sReq.data[sIdx] = <<>>
       THEN sPc' = "panic" /\ UNCHANGED <<sIdx, sWritten, sCalls>>
       ELSE LET u == sReq.data[sIdx][1] IN
            IF UpdateProductStatusRequestValidate(u) # Nil
            THEN /\ ShoptreeRespond(StatusBadRequest,
                                    UpdateProductStatusRequestValidate(u))
                 /\ UNCHANGED <<sIdx, sCalls>>
            ELSE \E ok \in BOOLEAN :
                 /\ sCalls' = Append(sCalls,
                                Call("UpdateStatus", UpdateProductStatusRequestToPB(u), ~ok))
                 /\ sIdx' = sIdx + 1 /\ UNCHANGED <<sPc, sWritten>>
    /\ UNCHANGED <<sReq, midtransVars, mileappVars, mainVars>>

\* part_002 lines 198-226: one iteration of the loop of HandleProductStatusUpdate
StatusItem ==
    /\ sPc = "loop" /\ sReq.handler = "status"
    /\ sIdx <= Len(sReq.data)
    /\ IF sReq.data[sIdx] = <<>>
       THEN sPc' = "panic" /\ UNCHANGED <<sIdx, sWritten, sCalls>>
       ELSE LET u == sReq.data[sIdx][1] IN
            IF UpdateProductStatusRequestValidate(u) # Nil
            THEN /\ ShoptreeRespond(StatusBadRequest,
                                    UpdateProductStatusRequestValidate(u))
                 /\ UNCHANGED <<sIdx, sCalls>>
            ELSE \E ok \in BOOLEAN :
                 /\ sCalls' = Append(sCalls,
                                Call("UpdateStatus", UpdateProductStatusRequestToPB(u), ~ok))
                 /\ IF ok
                    THEN sIdx' = sIdx + 1 /\ UNCHANGED <<sPc, sWritten>>
                    ELSE /\ ShoptreeRespond(StatusInternalServerError,
                                            "failed to update product variant status")
                         /\ UNCHANGED sIdx
    /\ UNCHANGED <<sReq, midtransVars, mileappVars, mainVars>>

\* part_002 lines 153-156 and 228-231: the loop is over
ShoptreeSuccess ==
    /\ sPc = "loop"
    /\ sIdx > Len(sReq.data)
    /\ ShoptreeRespond(StatusOK, "success")
    /\ UNCHANGED <<sReq, sIdx, sCalls, midtransVars, mileappVars, mainVars>>

\* the inventory callbacks are served; no other callback arrives
InitShoptree ==
    /\ tasks = <<>>
    /\ orderState = ORDER_STATE_PENDING
    /\ MidtransIdle
    /\ mTasks = <<>>
    /\ MileappIdle
    /\ ShoptreeIdle
    /\ MainIdle

NextShoptree ==
    \/ ShoptreeReceive
    \/ ShoptreeCheck
    \/ StockItem
    \/ StatusItem
    \/ ShoptreeSuccess
    \/ ShoptreeReturn

SpecShoptree == InitShoptree /\ [][NextShoptree]_vars

(***************************************************************************)
(* main (src/main.go lines 140-170): the goroutine of main, which serves   *)
(* and then waits for idleConnsClosed, and the goroutine that waits for    *)
(* the interrupt signal and shuts the server down.  Time is counted in     *)
(* seconds from the call of srv.Shutdown.  logger.Fatal ends the process:  *)
(* once a goroutine is at "fatal", or main has returned, nothing runs.     *)
(***************************************************************************)
MaxConnections == 2

\* line 144
shutdownTimeout == 10

ProcessEnded == mainPc \in {"returned", "fatal"} \/ sigPc = "fatal"

\* the server accepts a connection: it is listening and not shut down
Accept ==
    /\ ~ProcessEnded
    /\ mainPc = "listen" /\ sigPc = "sigint"
    /\ active < MaxConnections
    /\ active' = active + 1
    /\ UNCHANGED <<mainPc, sigPc, elapsed, idleConnsClosed, lasErr, shutdownErr,
                   midtransVars, mileappVars, shoptreeVars>>

\* a connection has served its request and is idle or closed
Finish ==
    /\ ~ProcessEnded
    /\ active > 0
    /\ active' = active - 1
    /\ UNCHANGED <<mainPc, sigPc, elapsed, idleConnsClosed, lasErr, shutdownErr,
                   midtransVars, mileappVars, shoptreeVars>>

\* lines 148-156: the signal arrives and the goroutine calls srv.Shutdown
\* with a context of shutdownTimeout
Interrupt ==
    /\ ~ProcessEnded
    /\ sigPc = "sigint"
    /\ sigPc' = "shutdown"
    /\ elapsed' = 0
    /\ UNCHANGED <<mainPc, active, idleConnsClosed, lasErr, shutdownErr,
                   midtransVars, mileappVars, shoptreeVars>>

\* lines 164-166: ListenAndServe returns an error other than ErrServerClosed
\* (the port cannot be bound, Accept fails): fatal
ListenAndServeFails ==
    /\ ~ProcessEnded
    /\ mainPc = "listen" /\ sigPc = "sigint"
    /\ lasErr' = "other"
    /\ mainPc' = "fatal"
    /\ UNCHANGED <<sigPc, active, elapsed, idleConnsClosed, shutdownErr,
                   midtransVars, mileappVars, shoptreeVars>>

\* lines 164-167: once Shutdown has been called ListenAndServe returns
\* ErrServerClosed, and main goes on to wait for idleConnsClosed
ListenAndServeClosed ==
    /\ ~ProcessEnded
    /\ mainPc = "listen" /\ sigPc # "sigint"
    /\ lasErr' = "ErrServerClosed"
    /\ mainPc' = "wait"
    /\ UNCHANGED <<sigPc, active, elapsed, idleConnsClosed, shutdownErr,
                   midtransVars, mileappVars, shoptreeVars>>

\* a second passes while srv.Shutdown waits for the connections
Tick ==
    /\ ~ProcessEnded
    /\ sigPc = "shutdown"
    /\ elapsed < shutdownTimeout
    /\ elapsed' = elapsed + 1
    /\ UNCHANGED <<mainPc, sigPc, active, idleConnsClosed, lasErr, shutdownErr,
                   midtransVars, mileappVars, shoptreeVars>>

\* lines 156-159: srv.Shutdown finds every connection idle and returns nil
ShutdownReturns ==
    /\ ~ProcessEnded
    /\ sigPc = "shutdown"
    /\ active = 0
    /\ shutdownErr' = "nil"
    /\ sigPc' = "closing"
    /\ UNCHANGED <<mainPc, active, elapsed, idleConnsClosed, lasErr,
                   midtransVars, mileappVars, shoptreeVars>>

\* lines 156-158: srv.Shutdown returns the context's error when the timeout
\* has elapsed, or the error of closing the listener: fatal
ShutdownFails ==
    /\ ~ProcessEnded
    /\ sigPc = "shutdown"
    /\ \/ elapsed = shutdownTimeout /\ shutdownErr' = "context deadline exceeded"
       \/ active = 0 /\ shutdownErr' = "listener"
    /\ sigPc' = "fatal"
    /\ UNCHANGED <<mainPc, active, elapsed, idleConnsClosed, lasErr,
                   midtransVars, mileappVars, shoptreeVars>>

\* a main that does not wait for idleConnsClosed
MainReturnsAtOnce ==
    /\ ~ProcessEnded
    /\ mainPc = "wait"
    /\ mainPc' = "returned"
    /\ UNCHANGED <<sigPc, active, elapsed, idleConnsClosed, lasErr, shutdownErr,
                   midtransVars, mileappVars, shoptreeVars>>

\* line 160: close(idleConnsClosed)
CloseIdleConnsClosed ==
    /\ ~ProcessEnded
    /\ sigPc = "closing"
    /\ idleConnsClosed' = TRUE
    /\ sigPc' = "closed"
    /\ UNCHANGED <<mainPc, active, elapsed, lasErr, shutdownErr,
                   midtransVars, mileappVars, shoptreeVars>>

\* lines 154 and 161: the deferred cancel runs and the goroutine ends
GoroutineReturns ==
    /\ ~ProcessEnded
    /\ sigPc = "closed"
    /\ sigPc' = "finished"
    /\ UNCHANGED <<mainPc, active, elapsed, idleConnsClosed, lasErr, shutdownErr,
                   midtransVars, mileappVars, shoptreeVars>>

\* lines 167-170: the receive from the closed channel returns, main logs
\* "server exited gracefully" and returns
MainReturns ==
    /\ ~ProcessEnded
    /\ mainPc = "wait"
    /\ idleConnsClosed
    /\ mainPc' = "returned"
    /\ UNCHANGED <<sigPc, active, elapsed, idleConnsClosed, lasErr, shutdownErr,
                   midtransVars, mileappVars, shoptreeVars>>

\* the process runs; the callbacks it serves are left out
InitMain ==
    /\ tasks = <<>>
    /\ orderState = ORDER_STATE_PENDING
    /\ MidtransIdle
    /\ mTasks = <<>>
    /\ MileappIdle
    /\ ShoptreeIdle
    /\ MainIdle

NextMain ==
    \/ Accept
    \/ Finish
    \/ Interrupt
    \/ ListenAndServeFails
    \/ ListenAndServeClosed
    \/ Tick
    \/ ShutdownReturns
    \/ ShutdownFails
    \/ CloseIdleConnsClosed
    \/ GoroutineReturns
    \/ MainReturns

SpecMain == InitMain /\ [][NextMain]_vars

(***************************************************************************)
(* Vocabulary of the properties.                                           *)
(***************************************************************************)
Active(r) == pc[r] # "idle"
Done(r) == pc[r] = "done"

\* the handler is still before its first network call, or has returned there
NoCallMade(r) == calls[r] = <<>> /\ pc[r] \in {"start", "done"}

CallsTo(r, op) == SelectSeq(calls[r], LAMBDA c : c.op = op)
UpdateCalls(r) == CallsTo(r, "UpdateOrderTask")

\* the request's Content-Type is accepted and its body decodes
WellFormed(q) == q.ContentType = "application/json" /\ q.decodes

\* the notification's signatureKey is the digest of its own fields and the server key
SignatureValid(q) ==
    q.body.SignatureKey =
        Sha512Hex(q.body.OrderID \o q.body.StatusCode \o q.body.GrossAmount \o serverKey)

PendingSpellings ==
    { PendingTransactionStatus, <<"P","E","N","D","I","N","G">>, <<"P","e","n","d","i","n","g">>,
      <<"P","E","N","D","U+0130","N","G">> }

SupportedPaymentTypes == {"gopay", "bank_transfer"}

(***************************************************************************)
(* C1: a notification whose signatureKey does not validate against         *)
(* (orderId, statusCode, grossAmount, server key) is answered with 400 and *)
(* the handler makes no downstream call for it: no provider status lookup, *)
(* no GetOrderTask, no order Get, no UpdateOrderTask.                      *)
(***************************************************************************)
C1_SignatureGate ==
    \A r \in Reqs :
        (Active(r) /\ ~SignatureValid(req[r])) =>
            /\ NoCallMade(r)
            /\ Done(r) => resp[r] = 400

\* a well-formed, non-pending notification of a supported payment type with
\* a forged signature has been answered
C1_Witness ==
    \E r \in Reqs :
        /\ Done(r) /\ WellFormed(req[r]) /\ ~SignatureValid(req[r])
        /\ req[r].body.SignatureKey # EmptyString
        /\ req[r].body.TransactionStatus = SettlementTransactionStatus
        /\ req[r].body.PaymentType = "gopay"
        /\ resp[r] = 400

(***************************************************************************)
(* C2: a notification that passes the content-type, body-parse and         *)
(* signature checks and whose transactionStatus is "pending" in any letter *)
(* case is answered with 200 and the handler makes no provider status      *)
(* lookup, no GetOrderTask, no order Get and no UpdateOrderTask, whatever  *)
(* its other fields (paymentType included) are.                            *)
(***************************************************************************)
C2_PendingShortCircuit ==
    \A r \in Reqs :
        ( /\ Active(r) /\ WellFormed(req[r]) /\ SignatureValid(req[r])
          /\ req[r].body.TransactionStatus \in PendingSpellings ) =>
            /\ NoCallMade(r)
            /\ Done(r) => resp[r] = 200

\* an upper-case PENDING notification of an unsupported payment type has been answered
C2_Witness ==
    \E r \in Reqs :
        /\ Done(r) /\ WellFormed(req[r]) /\ SignatureValid(req[r])
        /\ req[r].body.TransactionStatus = <<"P","E","N","D","I","N","G">>
        /\ req[r].body.PaymentType = "unknown-wallet"
        /\ resp[r] = 200


(***************************************************************************)
(* More vocabulary: what the handler observed in its calls.                *)
(***************************************************************************)
TerminalOrderStates == {"ORDER_STATE_PAID", "ORDER_STATE_CANCELLED", "ORDER_STATE_DONE"}

\* call number i of request r was made to op and returned without error
Succeeded(r, i, op) ==
    i \in DOMAIN calls[r] /\ calls[r][i].op = op /\ ~calls[r][i].err

\* the order state a successful order Get returned, if the request made one
OrderSeen(r) == { calls[r][i].arg[2] : i \in { j \in DOMAIN calls[r] : Succeeded(r, j, "Get") } }

\* the request passed every guard before the switch on the authoritative
\* status: the local checks, the three lookups, the idempotency guard and
\* the terminal-state guard, the order service having answered with an order
GuardsPassed(r) ==
    /\ WellFormed(req[r]) /\ SignatureValid(req[r])
    /\ req[r].body.TransactionStatus \notin PendingSpellings
    /\ req[r].body.PaymentType \in SupportedPaymentTypes
    /\ Succeeded(r, 1, "GetTransactionStatus")
    /\ Succeeded(r, 2, "GetOrderTask")
    /\ orderTask[r].State # "ORDER_TASK_STATE_SUCCESS"
    /\ Succeeded(r, 3, "Get")
    /\ OrderSeen(r) \cap (TerminalOrderStates \cup {"nil"}) = {}

\* exactly one UpdateOrderTask call was made, for the resolved task, with state s
ExactlyOneUpdate(r, s) ==
    /\ Len(UpdateCalls(r)) = 1
    /\ UpdateCalls(r)[1].arg = <<orderTask[r].TaskId, s>>

SettlementSpellings ==
    { SettlementTransactionStatus, <<"S","e","t","t","l","e","m","e","n","t">> }
AcceptedFraud == { EmptyString, FraudStatusAccept, <<"A","c","c","e","p","t">> }
FailedSpellings ==
    { ExpireTransactionStatus, FailureTransactionStatus, CancelTransactionStatus,
      DenyTransactionStatus, <<"D","E","N","Y">> }

(***************************************************************************)
(* C3 as stated: every notification addressing a payment task that is      *)
(* already SUCCESS when it arrives is answered with 200 and makes no       *)
(* UpdateOrderTask call.                                                   *)
(***************************************************************************)
C3_AsStated ==
    \A r \in Reqs :
        ( /\ Done(r) /\ WellFormed(req[r]) /\ req[r].body.OrderID = KnownTaskID
          /\ taskAtReceipt[r] = "ORDER_TASK_STATE_SUCCESS" ) =>
            /\ resp[r] = 200
            /\ UpdateCalls(r) = <<>>

(***************************************************************************)
(* C3 amended: when GetOrderTask returns a payment task whose state is     *)
(* SUCCESS, the request ends there: the response is 200 and no order Get   *)
(* and no UpdateOrderTask call is made, whatever the authoritative         *)
(* transaction status is.                                                  *)
(***************************************************************************)
C3_IdempotencyGuard ==
    \A r \in Reqs :
        ( /\ Succeeded(r, 2, "GetOrderTask")
          /\ orderTask[r].TaskType = "ORDER_TASK_TYPE_PAYMENT"
          /\ orderTask[r].State = "ORDER_TASK_STATE_SUCCESS" ) =>
            /\ Done(r) /\ resp[r] = 200
            /\ Len(calls[r]) = 2

\* a settlement for a task that is already SUCCESS has been answered
C3_Witness ==
    \E r \in Reqs :
        /\ Done(r) /\ resp[r] = 200
        /\ Succeeded(r, 2, "GetOrderTask")
        /\ orderTask[r].State = "ORDER_TASK_STATE_SUCCESS"
        /\ taskAtReceipt[r] = "ORDER_TASK_STATE_SUCCESS"
        /\ trx[r].TransactionStatus = DenyTransactionStatus

(***************************************************************************)
(* C4 as stated: whenever the authoritative status is "settlement" and the *)
(* authoritative fraud status is absent or "accept", exactly one           *)
(* UpdateOrderTask call is made, with state SUCCESS.                       *)
(***************************************************************************)
C4_AsStated ==
    \A r \in Reqs :
        ( /\ Done(r)
          /\ trx[r].TransactionStatus \in SettlementSpellings
          /\ trx[r].FraudStatus \in AcceptedFraud ) =>
            ExactlyOneUpdate(r, "ORDER_TASK_STATE_SUCCESS")

(***************************************************************************)
(* C4 amended: for a request that passes every guard before the switch     *)
(* (the lookups succeed, the resolved task is not SUCCESS, the order is    *)
(* not terminal), when the authoritative status is "settlement" and the    *)
(* authoritative fraud status is absent or "accept", exactly one           *)
(* UpdateOrderTask call is made, and it carries state SUCCESS.             *)
(***************************************************************************)
C4_SettlementOneSuccess ==
    \A r \in Reqs :
        ( /\ Done(r) /\ GuardsPassed(r)
          /\ trx[r].TransactionStatus \in SettlementSpellings
          /\ trx[r].FraudStatus \in AcceptedFraud ) =>
            ExactlyOneUpdate(r, "ORDER_TASK_STATE_SUCCESS")

\* the spec's scenario: settlement, fraud accept, task ongoing, order pending
C4_Witness ==
    \E r \in Reqs :
        /\ Done(r) /\ GuardsPassed(r) /\ resp[r] = 200
        /\ trx[r].TransactionStatus = SettlementTransactionStatus
        /\ trx[r].FraudStatus = FraudStatusAccept
        /\ taskAtReceipt[r] = "ORDER_TASK_STATE_ONGOING"
        /\ OrderSeen(r) = {"ORDER_STATE_PENDING"}
        /\ UpdateCalls(r) = << Call("UpdateOrderTask", <<KnownTaskID, "ORDER_TASK_STATE_SUCCESS">>, FALSE) >>
        /\ PaymentTaskState(tasks) = "ORDER_TASK_STATE_SUCCESS"

(***************************************************************************)
(* C5 as stated: whenever the authoritative status is "expire", "failure", *)
(* "cancel" or "deny", exactly one UpdateOrderTask call is made, with      *)
(* state FAILED.                                                           *)
(***************************************************************************)
C5_AsStated ==
    \A r \in Reqs :
        (Done(r) /\ trx[r].TransactionStatus \in FailedSpellings) =>
            ExactlyOneUpdate(r, "ORDER_TASK_STATE_FAILED")

(***************************************************************************)
(* C5 amended: for a request that passes every guard before the switch,    *)
(* when the authoritative status is "expire", "failure", "cancel" or       *)
(* "deny", exactly one UpdateOrderTask call is made, and it carries state  *)
(* FAILED.                                                                 *)
(***************************************************************************)
C5_FailedOneFailed ==
    \A r \in Reqs :
        ( /\ Done(r) /\ GuardsPassed(r)
          /\ trx[r].TransactionStatus \in FailedSpellings ) =>
            ExactlyOneUpdate(r, "ORDER_TASK_STATE_FAILED")

\* a deny for an ongoing task of a pending order has been applied
C5_Witness ==
    \E r \in Reqs :
        /\ Done(r) /\ GuardsPassed(r) /\ resp[r] = 200
        /\ trx[r].TransactionStatus = DenyTransactionStatus
        /\ taskAtReceipt[r] = "ORDER_TASK_STATE_ONGOING"
        /\ UpdateCalls(r) = << Call("UpdateOrderTask", <<KnownTaskID, "ORDER_TASK_STATE_FAILED">>, FALSE) >>
        /\ PaymentTaskState(tasks) = "ORDER_TASK_STATE_FAILED"

(***************************************************************************)
(* C6 as stated: whenever the order owning the task is in a terminal state *)
(* (PAID, CANCELLED, DONE), the response is 400 and no UpdateOrderTask     *)
(* call is made.                                                           *)
(***************************************************************************)
C6_AsStated ==
    \A r \in Reqs :
        ( /\ Done(r) /\ WellFormed(req[r]) /\ req[r].body.OrderID = KnownTaskID
          /\ taskAtReceipt[r] # NoTask
          /\ orderState \in TerminalOrderStates ) =>
            /\ resp[r] = 400
            /\ UpdateCalls(r) = <<>>

(***************************************************************************)
(* C6 amended: whenever the order Get returns an order in a terminal state *)
(* (PAID, CANCELLED, DONE) - the handler fetches the order only after the  *)
(* local checks, the provider lookup, GetOrderTask and the idempotency     *)
(* guard have passed - the response is 400 and no UpdateOrderTask call is  *)
(* made, regardless of the authoritative transaction status.               *)
(***************************************************************************)
C6_TerminalOrderGuard ==
    \A r \in Reqs :
        (OrderSeen(r) \cap TerminalOrderStates # {}) =>
            /\ Done(r) /\ resp[r] = 400
            /\ UpdateCalls(r) = <<>>
            /\ Len(calls[r]) = 3

\* a settlement for an ongoing task of an order that is DONE has been refused
C6_Witness ==
    \E r \in Reqs :
        /\ Done(r) /\ resp[r] = 400
        /\ OrderSeen(r) = {"ORDER_STATE_DONE"} /\ orderState = "ORDER_STATE_DONE"
        /\ taskAtReceipt[r] = "ORDER_TASK_STATE_ONGOING"
        /\ trx[r].TransactionStatus = SettlementTransactionStatus


(***************************************************************************)
(* C7 as stated: every notification with a valid signature whose           *)
(* paymentType is not a supported method is answered with 500, and no      *)
(* call is made for it - also when its transactionStatus is "pending".     *)
(***************************************************************************)
C7_AsStated ==
    \A r \in Reqs :
        ( /\ Active(r) /\ WellFormed(req[r]) /\ SignatureValid(req[r])
          /\ req[r].body.PaymentType \notin SupportedPaymentTypes ) =>
            /\ NoCallMade(r)
            /\ Done(r) => resp[r] = 500

(***************************************************************************)
(* C7 amended: a notification that passes the content-type and body-parse  *)
(* checks, has a valid signature and an unsupported paymentType is         *)
(* answered with 500 when its transactionStatus is not "pending" (in any   *)
(* letter case) and with 200 when it is; in both cases no call is made     *)
(* (no provider lookup, no GetOrderTask, no order Get, no UpdateOrderTask).*)
(***************************************************************************)
C7_UnsupportedPaymentType ==
    \A r \in Reqs :
        ( /\ Active(r) /\ WellFormed(req[r]) /\ SignatureValid(req[r])
          /\ req[r].body.PaymentType \notin SupportedPaymentTypes ) =>
            /\ NoCallMade(r)
            /\ Done(r) => resp[r] = IF req[r].body.TransactionStatus \in PendingSpellings
                                    THEN 200 ELSE 500

\* the repository's test: valid signature, no transactionStatus, no paymentType
C7_Witness ==
    \E r \in Reqs :
        /\ Done(r) /\ WellFormed(req[r]) /\ SignatureValid(req[r])
        /\ req[r].body.TransactionStatus = EmptyString
        /\ req[r].body.PaymentType = ""
        /\ resp[r] = 500 /\ calls[r] = <<>>

(***************************************************************************)
(* The local failures of C8.                                               *)
(***************************************************************************)
BadBody(q) == q.ContentType = "application/json" /\ ~q.decodes
BadSignature(q) == WellFormed(q) /\ ~SignatureValid(q)
UnsupportedMethod(q) ==
    /\ WellFormed(q) /\ SignatureValid(q)
    /\ q.body.TransactionStatus \notin PendingSpellings
    /\ q.body.PaymentType \notin SupportedPaymentTypes

(***************************************************************************)
(* C8 as stated: every local failure (bad signature, bad body, unsupported *)
(* payment method) ends the request, is answered with a 4xx status code    *)
(* and leaves no side effect.                                              *)
(***************************************************************************)
C8_AsStated ==
    \A r \in Reqs :
        ( /\ Active(r)
          /\ BadBody(req[r]) \/ BadSignature(req[r]) \/ UnsupportedMethod(req[r]) ) =>
            /\ NoCallMade(r)
            /\ Done(r) => resp[r] \in 400..499

(***************************************************************************)
(* C8 amended: every local failure ends the request and leaves no side     *)
(* effect (no call at all, so no UpdateOrderTask); a bad signature and a   *)
(* bad body are answered with 400, an unsupported payment method with 500. *)
(***************************************************************************)
C8_LocalFailures ==
    \A r \in Reqs :
        /\ (Active(r) /\ (BadBody(req[r]) \/ BadSignature(req[r]))) =>
              /\ NoCallMade(r)
              /\ Done(r) => resp[r] = 400
        /\ (Active(r) /\ UnsupportedMethod(req[r])) =>
              /\ NoCallMade(r)
              /\ Done(r) => resp[r] = 500

\* a JSON request whose body does not decode has been answered
C8_Witness ==
    \E r \in Reqs : Done(r) /\ BadBody(req[r]) /\ resp[r] = 400 /\ calls[r] = <<>>

(***************************************************************************)
(* C9: a failure of an internal RPC (GetOrderTask, order Get,              *)
(* UpdateOrderTask) ends the request with status 500: the failed call is   *)
(* the last call of the request, so it is not retried and no RPC follows.  *)
(***************************************************************************)
InternalRPCs == {"GetOrderTask", "Get", "UpdateOrderTask"}

C9_RpcFailureIs500 ==
    \A r \in Reqs : \A i \in DOMAIN calls[r] :
        (calls[r][i].op \in InternalRPCs /\ calls[r][i].err) =>
            /\ i = Len(calls[r])
            /\ Done(r) /\ resp[r] = 500

\* the FAILED write of a fraud-rejected capture has failed
C9_Witness ==
    \E r \in Reqs :
        /\ Done(r) /\ resp[r] = 500
        /\ trx[r].TransactionStatus = CaptureTransactionStatus
        /\ trx[r].FraudStatus = DenyTransactionStatus
        /\ Len(calls[r]) = 4
        /\ calls[r][4] = Call("UpdateOrderTask", <<KnownTaskID, "ORDER_TASK_STATE_FAILED">>, TRUE)

(***************************************************************************)
(* C10: a failure of the provider status lookup (GetTransactionStatus) is  *)
(* answered with 400, not 500, and the request makes no GetOrderTask, no   *)
(* order Get and no UpdateOrderTask call.                                  *)
(***************************************************************************)
C10_LookupFailureIs400 ==
    \A r \in Reqs : \A i \in DOMAIN calls[r] :
        (calls[r][i].op = "GetTransactionStatus" /\ calls[r][i].err) =>
            /\ Done(r) /\ resp[r] = 400
            /\ Len(calls[r]) = 1

\* the lookup for a genuine settlement notification has failed
C10_Witness ==
    \E r \in Reqs :
        /\ Done(r) /\ resp[r] = 400
        /\ SignatureValid(req[r])
        /\ req[r].body.TransactionStatus = SettlementTransactionStatus
        /\ calls[r] = << Call("GetTransactionStatus", KnownTaskID, TRUE) >>

(***************************************************************************)
(* Vocabulary: the fraud-rejected capture and the calls of the handler.    *)
(***************************************************************************)
CaptureSpellings == { CaptureTransactionStatus }
RejectedFraud == { DenyTransactionStatus }

\* the authoritative transaction is a capture or a settlement whose fraud
\* status is present and is not "accept" in any letter case
FraudRejectedCapture(t) ==
    /\ t.TransactionStatus \in CaptureSpellings \cup SettlementSpellings
    /\ t.FraudStatus \in RejectedFraud

ReadingCalls == {"GetTransactionStatus", "GetOrderTask", "Get"}

UpdateArgs(r) == [i \in DOMAIN UpdateCalls(r) |-> UpdateCalls(r)[i].arg[2]]

\* the step appends one UpdateOrderTask call that returned without error
UpdateReturned ==
    \E r \in Reqs :
        /\ Len(calls'[r]) = Len(calls[r]) + 1
        /\ calls'[r][Len(calls'[r])].op = "UpdateOrderTask"
        /\ ~calls'[r][Len(calls'[r])].err

(***************************************************************************)
(* C11: a request makes at most one UpdateOrderTask call, except for a     *)
(* capture or settlement whose fraud status is present and not "accept",   *)
(* where it makes at most two, FAILED before SUCCESS.  UpdateOrderTask is  *)
(* the only mutating call of the handler: every other call is a read, the  *)
(* task list changes only in a step in which an UpdateOrderTask call       *)
(* returns, and the order is never changed.                                *)
(***************************************************************************)
C11_UpdateCallBound ==
    /\ [](\A r \in Reqs :
            /\ \/ Len(UpdateCalls(r)) <= 1
               \/ /\ FraudRejectedCapture(trx[r])
                  /\ UpdateArgs(r) = <<"ORDER_TASK_STATE_FAILED", "ORDER_TASK_STATE_SUCCESS">>
            /\ \A i \in DOMAIN calls[r] :
                  calls[r][i].op \in ReadingCalls \cup {"UpdateOrderTask"})
    /\ [][ /\ orderState' = orderState
           /\ tasks' # tasks => UpdateReturned ]_vars

\* a fraud-rejected settlement has written FAILED and then SUCCESS
C11_Witness ==
    \E r \in Reqs :
        /\ Done(r) /\ FraudRejectedCapture(trx[r])
        /\ UpdateArgs(r) = <<"ORDER_TASK_STATE_FAILED", "ORDER_TASK_STATE_SUCCESS">>
        /\ PaymentTaskState(tasks) = "ORDER_TASK_STATE_SUCCESS"

(***************************************************************************)
(* Vocabulary: two requests that met the same answers.                     *)
(***************************************************************************)
\* the notification passed the signature gate, is not pending and names a
\* supported payment type
Admitted(q) ==
    /\ WellFormed(q) /\ SignatureValid(q)
    /\ q.body.TransactionStatus \notin PendingSpellings
    /\ q.body.PaymentType \in SupportedPaymentTypes

\* what call number i of request r delivered when it returned without error:
\* the transaction, the resolved task or the order state
Delivered(r, i) ==
    LET c == calls[r][i] IN
      IF c.op = "GetTransactionStatus" THEN <<trx[r]>>
      ELSE IF c.op = "GetOrderTask" THEN <<orderTask[r]>>
      ELSE IF c.op = "Get" THEN <<c.arg[2]>>
      ELSE <<>>

\* the two requests got the same answer to every call that both have made
SameAnswers(r1, r2) ==
    \A i \in DOMAIN calls[r1] \cap DOMAIN calls[r2] :
        /\ calls[r1][i].op = calls[r2][i].op
        /\ calls[r1][i].err = calls[r2][i].err
        /\ ~calls[r1][i].err => Delivered(r1, i) = Delivered(r2, i)

UpdateTargets(r) == [i \in DOMAIN UpdateCalls(r) |-> UpdateCalls(r)[i].arg]

(***************************************************************************)
(* C12: only the authoritative transaction drives state changes.  Two      *)
(* notifications that both pass the signature gate, are both non-pending,  *)
(* name the same orderId and a supported paymentType and meet the same     *)
(* answers of the collaborators make the same sequence of UpdateOrderTask  *)
(* calls (task id and target state), even when their transactionStatus,    *)
(* fraudStatus, statusMessage and paymentType differ.                      *)
(***************************************************************************)
C12_OnlyAuthoritativeDrives ==
    \A r1, r2 \in Reqs :
        ( /\ Done(r1) /\ Done(r2)
          /\ Admitted(req[r1]) /\ Admitted(req[r2])
          /\ req[r1].body.OrderID = req[r2].body.OrderID
          /\ calls[r1] # <<>> /\ calls[r2] # <<>>
          /\ SameAnswers(r1, r2) ) =>
            UpdateTargets(r1) = UpdateTargets(r2)

\* a settlement notification and a deny notification for the same order,
\* both answered after the provider reported a settlement: each has written
\* SUCCESS
C12_Witness ==
    /\ Done(1) /\ Done(2)
    /\ req[1].body = GenuineNotification /\ req[2].body = OtherNotification
    /\ SameAnswers(1, 2)
    /\ trx[1].TransactionStatus = SettlementTransactionStatus
    /\ UpdateTargets(1) = << <<KnownTaskID, "ORDER_TASK_STATE_SUCCESS">> >>
    /\ UpdateTargets(2) = UpdateTargets(1)

(***************************************************************************)
(* C13 as stated: whenever the authoritative status is capture or          *)
(* settlement and the fraud status is present and not "accept", the        *)
(* handler calls UpdateOrderTask(FAILED) first; if that call succeeded it  *)
(* calls UpdateOrderTask(SUCCESS), the last state written is SUCCESS and   *)
(* the response is 200; if it failed, SUCCESS is not attempted and the     *)
(* response is 500.                                                        *)
(***************************************************************************)
C13_AsStated ==
    \A r \in Reqs :
        ( /\ Done(r) /\ Succeeded(r, 1, "GetTransactionStatus")
          /\ FraudRejectedCapture(trx[r]) ) =>
            /\ Len(UpdateCalls(r)) >= 1
            /\ UpdateArgs(r)[1] = "ORDER_TASK_STATE_FAILED"
            /\ IF UpdateCalls(r)[1].err
               THEN Len(UpdateCalls(r)) = 1 /\ resp[r] = 500
               ELSE /\ UpdateArgs(r) = <<"ORDER_TASK_STATE_FAILED", "ORDER_TASK_STATE_SUCCESS">>
                    /\ ~UpdateCalls(r)[2].err
                    /\ resp[r] = 200

(***************************************************************************)
(* C13: when a request has passed every guard before the switch and the    *)
(* authoritative status is capture or settlement with a fraud status that  *)
(* is present and not "accept", UpdateOrderTask(FAILED) is its first       *)
(* update; if that call failed it is the only one and the response is 500; *)
(* if it succeeded UpdateOrderTask(SUCCESS) follows, and the response is   *)
(* 200 when the SUCCESS call succeeded and 500 when it failed.             *)
(***************************************************************************)
C13_FraudRejectedSequence ==
    \A r \in Reqs :
        (GuardsPassed(r) /\ FraudRejectedCapture(trx[r])) =>
            /\ \/ UpdateArgs(r) = <<>>
               \/ UpdateArgs(r) = <<"ORDER_TASK_STATE_FAILED">>
               \/ UpdateArgs(r) = <<"ORDER_TASK_STATE_FAILED", "ORDER_TASK_STATE_SUCCESS">>
            /\ pc[r] = "success" => Len(UpdateCalls(r)) = 1 /\ ~UpdateCalls(r)[1].err
            /\ Done(r) =>
                 /\ Len(UpdateCalls(r)) >= 1
                 /\ IF UpdateCalls(r)[1].err
                    THEN Len(UpdateCalls(r)) = 1 /\ resp[r] = 500
                    ELSE /\ Len(UpdateCalls(r)) = 2
                         /\ resp[r] = IF UpdateCalls(r)[2].err THEN 500 ELSE 200

\* a fraud-rejected capture whose FAILED write succeeded and whose SUCCESS
\* write failed has been answered
C13_Witness ==
    \E r \in Reqs :
        /\ Done(r) /\ GuardsPassed(r)
        /\ trx[r].TransactionStatus = CaptureTransactionStatus
        /\ trx[r].FraudStatus = DenyTransactionStatus
        /\ UpdateArgs(r) = <<"ORDER_TASK_STATE_FAILED", "ORDER_TASK_STATE_SUCCESS">>
        /\ ~UpdateCalls(r)[1].err /\ UpdateCalls(r)[2].err
        /\ resp[r] = 500

(***************************************************************************)
(* C14: when a request has passed every guard and the authoritative status *)
(* is none of capture, settlement, expire, failure, cancel, deny (it is    *)
(* authorized, refund, pending, ...), the handler makes no UpdateOrderTask *)
(* call and answers 200.                                                   *)
(***************************************************************************)
C14_OtherStatusNoUpdate ==
    \A r \in Reqs :
        ( /\ GuardsPassed(r)
          /\ trx[r].TransactionStatus \notin
                CaptureSpellings \cup SettlementSpellings \cup FailedSpellings ) =>
            /\ UpdateCalls(r) = <<>>
            /\ Len(calls[r]) = 3
            /\ tasks = [i \in DOMAIN tasks |->
                          [tasks[i] EXCEPT !.State =
                              IF tasks[i].TaskType = "ORDER_TASK_TYPE_PAYMENT"
                              THEN taskAtReceipt[r] ELSE @]]
            /\ Done(r) => resp[r] = 200

\* a refund reported for an ongoing payment task of a pending order has been answered
C14_Witness ==
    \E r \in Reqs :
        /\ Done(r) /\ GuardsPassed(r)
        /\ trx[r].TransactionStatus = RefundTransactionStatus
        /\ orderTask[r].State = "ORDER_TASK_STATE_ONGOING"
        /\ OrderSeen(r) = {"ORDER_STATE_PENDING"}
        /\ UpdateCalls(r) = <<>> /\ resp[r] = 200

(***************************************************************************)
(* C15: when GetOrderTask succeeds but returns no task of type PAYMENT,    *)
(* the handler does not fail the request: it goes on with the zero-value   *)
(* task, so the idempotency guard does not fire, the order is fetched with *)
(* an empty order id, and every UpdateOrderTask call it makes carries an   *)
(* empty task id.                                                          *)
(***************************************************************************)
C15_NoPaymentTask ==
    \A r \in Reqs :
        (Succeeded(r, 2, "GetOrderTask") /\ taskAtReceipt[r] = NoTask) =>
            /\ orderTask[r] = ZeroOrderTask
            /\ Len(calls[r]) = 2 => pc[r] = "getOrder" /\ resp[r] = 0
            /\ Len(calls[r]) >= 3 =>
                 /\ calls[r][3].op = "Get"
                 /\ calls[r][3].arg \in
                       {EmptyString} \cup { <<EmptyString, s>> : s \in OrderStates \cup {"nil"} }
            /\ \A i \in DOMAIN UpdateCalls(r) : UpdateCalls(r)[i].arg[1] = EmptyString

\* a settlement for an order that has a delivery task only has been
\* answered 200 after a SUCCESS write with an empty task id
C15_Witness ==
    \E r \in Reqs :
        /\ Done(r) /\ taskAtReceipt[r] = NoTask /\ Len(tasks) = 1
        /\ Succeeded(r, 2, "GetOrderTask")
        /\ Succeeded(r, 3, "Get")
        /\ UpdateCalls(r) = << Call("UpdateOrderTask", <<EmptyString, "ORDER_TASK_STATE_SUCCESS">>, FALSE) >>
        /\ resp[r] = 200

(***************************************************************************)
(* C16: two requests in flight for the same task are not mutually          *)
(* excluded.  No step of a request waits for the other request: a handler  *)
(* that has not yet answered can always take its next step, wherever the   *)
(* other request is.  So both of two duplicate settlement notifications    *)
(* can read the task as not SUCCESS, pass the idempotency guard and issue  *)
(* UpdateOrderTask(SUCCESS) for the same task id (the witness).            *)
(***************************************************************************)
C16_NotMutuallyExcluded ==
    \A r \in Reqs :
        pc[r] \notin {"idle", "done", "panic"} => ENABLED HandleTransactionUpdate(r)

\* both duplicates read the ongoing task before either wrote, and both
\* have written SUCCESS to it
C16_Witness ==
    /\ req[1] = req[2]
    /\ req[1].body = GenuineNotification
    /\ \A r \in Reqs :
          /\ trx[r].TransactionStatus = SettlementTransactionStatus
          /\ trx[r].FraudStatus = EmptyString
          /\ Succeeded(r, 2, "GetOrderTask")
          /\ orderTask[r] = PaymentTask("ORDER_TASK_STATE_ONGOING")
          /\ UpdateCalls(r) =
                << Call("UpdateOrderTask", <<KnownTaskID, "ORDER_TASK_STATE_SUCCESS">>, FALSE) >>

(***************************************************************************)
(* C17 as stated: the deadline covers the provider status lookup and the   *)
(* three RPCs; when it elapses while one of these calls is in flight, that *)
(* call fails, it is the last call of the request and the response is 5xx. *)
(***************************************************************************)
C17_AsStated ==
    \A r \in Reqs :
        (Done(r) /\ expired[r] /\ elapsedAt[r] \in DOMAIN calls[r]) =>
            /\ calls[r][elapsedAt[r]].err
            /\ Len(calls[r]) = elapsedAt[r]
            /\ resp[r] \in 500..599

(***************************************************************************)
(* C17: the deadline covers the RPCs that are given the request's context  *)
(* (GetOrderTask, order Get, UpdateOrderTask): one that is in flight when  *)
(* the deadline elapses, or is called after, fails, is the last call of    *)
(* the request and the response is 500.  The provider status lookup is not *)
(* given the context: the deadline does not end it, its failure is         *)
(* answered 400, and when it succeeds GetOrderTask is still called.        *)
(***************************************************************************)
C17_DeadlineCoversRPCs ==
    \A r \in Reqs : expired[r] =>
        \A i \in DOMAIN calls[r] : i >= elapsedAt[r] =>
            IF calls[r][i].op \in InternalRPCs
            THEN /\ calls[r][i].err
                 /\ i = Len(calls[r])
                 /\ Done(r) /\ resp[r] = 500
            ELSE /\ i = 1
                 /\ calls[r][i].err => Done(r) /\ resp[r] = 400 /\ Len(calls[r]) = 1
                 /\ (~calls[r][i].err /\ Done(r)) =>
                        /\ Len(calls[r]) = 2
                        /\ calls[r][2] = Call("GetOrderTask", req[r].body.OrderID, TRUE)

\* the deadline elapsed during the provider status lookup, the lookup
\* returned a settlement all the same, and GetOrderTask was called and failed
C17_Witness ==
    \E r \in Reqs :
        /\ Done(r) /\ expired[r] /\ elapsedAt[r] = 1
        /\ Succeeded(r, 1, "GetTransactionStatus")
        /\ trx[r].TransactionStatus = SettlementTransactionStatus
        /\ Len(calls[r]) = 2 /\ calls[r][2].op = "GetOrderTask" /\ calls[r][2].err
        /\ resp[r] = 500

(***************************************************************************)
(* C18: the responses of the handler.  The handler has ended when it has   *)
(* returned ("done") or has panicked ("panic").                            *)
(***************************************************************************)
Ended(r) == pc[r] \in {"done", "panic"}

\* C18 as stated: on every control-flow path the handler writes exactly one
\* response: none while it is running, one when it has ended; the status
\* code of the response is 200, 400 or 500, its Content-Type header is
\* application/json and its body is empty.
C18_AsStated ==
    \A r \in Reqs :
        /\ Len(written[r]) = IF Ended(r) THEN 1 ELSE 0
        /\ \A i \in DOMAIN written[r] :
              /\ written[r][i].StatusCode \in {200, 400, 500}
              /\ written[r][i].ContentType = "application/json"
              /\ written[r][i].Body = ""

\* C18, the paths that end by a return: the handler writes no response
\* while it is running and exactly one when it has returned, a running handler
\* always has a next step, the status code of the response is 200, 400 or
\* 500, its Content-Type header is application/json and its body is empty,
\* so it carries no error detail.
C18_OneResponse ==
    \A r \in Reqs :
        /\ Len(written[r]) = IF Done(r) THEN 1 ELSE 0
        /\ \A i \in DOMAIN written[r] :
              /\ written[r][i].StatusCode \in {200, 400, 500}
              /\ written[r][i].StatusCode = resp[r]
              /\ written[r][i].ContentType = "application/json"
              /\ written[r][i].Body = ""
        /\ (Active(r) /\ ~Ended(r)) => ENABLED HandleTransactionUpdate(r)

\* the order service has answered without an order: the handler has
\* panicked and has written no response
C18_NoResponse ==
    \E r \in Reqs :
        /\ pc[r] = "panic"
        /\ Succeeded(r, 3, "Get") /\ calls[r][3].arg[2] = "nil"
        /\ written[r] = <<>> /\ resp[r] = 0

\* a notification of an unsupported payment type has been answered 500
C18_Witness ==
    \E r \in Reqs :
        /\ Done(r) /\ UnsupportedMethod(req[r])
        /\ written[r] =
              << [StatusCode |-> 500, ContentType |-> "application/json", Body |-> ""] >>

(***************************************************************************)
(* C19: a request whose Content-Type header is absent or is not exactly    *)
(* application/json is answered 400, and so is a request whose body does   *)
(* not parse; in both cases the handler stops there: it does not run the   *)
(* signature check and makes no downstream call.                           *)
(***************************************************************************)
C19_HeaderAndBodyGate ==
    \A r \in Reqs :
        pc[r] \notin {"idle", "start"} =>
            /\ req[r].ContentType # "application/json" =>
                  /\ Done(r) /\ resp[r] = 400 /\ calls[r] = <<>>
                  /\ checks[r] = <<"validateHeaders">>
            /\ (req[r].ContentType = "application/json" /\ ~req[r].decodes) =>
                  /\ Done(r) /\ resp[r] = 400 /\ calls[r] = <<>>
                  /\ checks[r] = <<"validateHeaders", "Decode">>

\* a correctly signed settlement notification sent as
\* "application/json; charset=utf-8" has been rejected
C19_Witness ==
    \E r \in Reqs :
        /\ Done(r) /\ req[r].ContentType = "application/json; charset=utf-8"
        /\ req[r].decodes /\ SignatureValid(req[r])
        /\ req[r].body.TransactionStatus = SettlementTransactionStatus
        /\ resp[r] = 400 /\ calls[r] = <<>>
        /\ checks[r] = <<"validateHeaders">>

(***************************************************************************)
(* Vocabulary: the checks of the delivery callback, in the order of the    *)
(* claim, each with the condition under which it fails and its message.    *)
(***************************************************************************)
MileappChecks(q) ==
    << [fails |-> q.head.TaskType \notin {"picking", "packing", "shipping", "delivery"},
        message |-> "unsupported task type: " \o q.head.TaskType],
       [fails |-> q.head.Method # "POST",
        message |-> "expecting http method post, got: " \o q.head.Method],
       [fails |-> q.head.ContentType = "", message |-> "content-type is required"],
       [fails |-> q.head.ContentType # "application/json", message |-> "invalid content-type"],
       [fails |-> q.head.APIKey = "", message |-> "x-api-key is required"],
       [fails |-> q.head.APIKey # "valid-x-api-key", message |-> "invalid x-api-key"],
       [fails |-> ~q.decodes, message |-> "invalid request data"],
       [fails |-> q.body.TaskRefID = "", message |-> "taskRefId is required"],
       [fails |-> q.body.OrderNumber = "", message |-> "order number is required"],
       [fails |-> q.body.TaskStatus = "", message |-> "taskStatus is required"],
       [fails |-> q.body.TaskStatus \notin {"ongoing", "done"},
        message |-> "taskStatus is invalid"] >>

\* check number i is the first check that request q fails
FirstFailing(q, i) ==
    /\ i \in DOMAIN MileappChecks(q)
    /\ MileappChecks(q)[i].fails
    /\ \A j \in DOMAIN MileappChecks(q) : j < i => ~MileappChecks(q)[j].fails

(***************************************************************************)
(* C20: HandleStatusUpdate applies its checks in the order: supported task *)
(* type in the URL, POST method, Content-Type present, Content-Type equals *)
(* application/json, x-api-key present, x-api-key equals the configured    *)
(* key, body decodes, taskRefId non-empty, UserVar.orderNumber non-empty,  *)
(* taskStatus non-empty, taskStatus in {ongoing, done}.  The first check   *)
(* that fails decides the response: 400 with that check's message, and     *)
(* neither GetOrderTask nor UpdateOrderTask is called.                     *)
(***************************************************************************)
C20_MileappCheckOrder ==
    mPc \notin {"idle", "start"} =>
        \A i \in DOMAIN MileappChecks(mReq) :
            FirstFailing(mReq, i) =>
                /\ mPc = "done"
                /\ mWritten = << [StatusCode |-> 400, ContentType |-> "application/json",
                                  Message |-> MileappChecks(mReq)[i].message] >>
                /\ mCalls = <<>>

\* a GET request for a shipping task with a plain-text content type, an
\* invalid key and an invalid taskStatus has been answered for its method
C20_Witness ==
    /\ mPc = "done"
    /\ mReq.head = [TaskType |-> "shipping", Method |-> "GET",
                    ContentType |-> "text/plain", APIKey |-> "invalid-x-api-key"]
    /\ mReq.decodes /\ mReq.body.TaskStatus = "whatever"
    /\ mWritten = << [StatusCode |-> 400, ContentType |-> "application/json",
                      Message |-> "expecting http method post, got: GET"] >>
    /\ mCalls = <<>>

(***************************************************************************)
(* Vocabulary: a delivery callback that passes every check.                *)
(***************************************************************************)
MileappAdmitted(q) == \A i \in DOMAIN MileappChecks(q) : ~MileappChecks(q)[i].fails

\* the task type the URL of the request names
RequestedType(q) ==
    CASE q.head.TaskType = "picking" -> "ORDER_TASK_TYPE_PICKING"
      [] q.head.TaskType = "packing" -> "ORDER_TASK_TYPE_PACKING"
      [] q.head.TaskType = "shipping" -> "ORDER_TASK_TYPE_SHIPPING"
      [] q.head.TaskType = "delivery" -> "ORDER_TASK_TYPE_DELIVERY"
      [] OTHER -> "none"

MileappResponse(code) ==
    \E m \in {"success", "failed to update order task"} :
        mWritten = << [StatusCode |-> code, ContentType |-> "application/json", Message |-> m] >>

(***************************************************************************)
(* C21: for a delivery callback that passes all checks the handler calls   *)
(* GetOrderTask once; if it fails the response is 500; if the matched task *)
(* is already SUCCESS nothing more is called; otherwise UpdateOrderTask is *)
(* called exactly once, with state SUCCESS for taskStatus "ongoing" and    *)
(* for "done", with the matched task's id, which is empty when the order   *)
(* has no task of the requested type.  The response is 200, or 500 when    *)
(* UpdateOrderTask fails, and its Content-Type is application/json.        *)
(***************************************************************************)
C21_MileappSuccessPath ==
    (mPc \notin {"idle", "start"} /\ MileappAdmitted(mReq)) =>
        /\ Len(mCalls) <= 2
        /\ mPc # "done" => mWritten = <<>>
        /\ mPc = "update" => Len(mCalls) = 1
        /\ mPc = "done" =>
             /\ Len(mCalls) >= 1
             /\ mCalls[1].op = "GetOrderTask" /\ mCalls[1].arg = mReq.body.OrderNumber
             /\ IF mCalls[1].err THEN Len(mCalls) = 1 /\ MileappResponse(500)
                ELSE IF mOrderTask.State = "ORDER_TASK_STATE_SUCCESS"
                THEN Len(mCalls) = 1 /\ MileappResponse(200)
                ELSE /\ Len(mCalls) = 2
                     /\ mCalls[2].op = "UpdateOrderTask"
                     /\ mCalls[2].arg.State = "ORDER_TASK_STATE_SUCCESS"
                     /\ mCalls[2].arg.TaskId = mOrderTask.TaskId
                     /\ (\A i \in DOMAIN mTasks : mTasks[i].TaskType # RequestedType(mReq))
                           => mCalls[2].arg.TaskId = EmptyString
                     /\ MileappResponse(IF mCalls[2].err THEN 500 ELSE 200)

\* an "ongoing" callback for the picking task of an order that has none has
\* been answered 200 after a SUCCESS write with an empty task id
C21_Witness ==
    /\ mPc = "done" /\ MileappAdmitted(mReq)
    /\ mReq.head.TaskType = "picking" /\ mReq.body.TaskStatus = "ongoing"
    /\ Len(mTasks) = 2
    /\ Len(mCalls) = 2 /\ ~mCalls[1].err /\ ~mCalls[2].err
    /\ mCalls[2].arg.TaskId = EmptyString
    /\ mCalls[2].arg.State = "ORDER_TASK_STATE_SUCCESS"
    /\ MileappResponse(200)

(***************************************************************************)
(* Vocabulary: the calls to UpdateOrderTask in a call log, and whether the *)
(* callback served before the current one wrote SUCCESS to a task.         *)
(***************************************************************************)
MileappUpdateCalls(log) == { i \in DOMAIN log : log[i].op = "UpdateOrderTask" }

PreviousUpdated ==
    \E i \in MileappUpdateCalls(mPrev.calls) :
        ~mPrev.calls[i].err /\ mPrev.calls[i].arg.TaskId # EmptyString

\* the callback being served repeats the one served just before
Duplicate == mReq # MileappNoRequest /\ mReq = mPrev.req

C27_GuardBeforeOrderFetch ==
    \A r \in Reqs :
        /\ ( /\ Done(r) /\ Succeeded(r, 2, "GetOrderTask")
             /\ orderTask[r].State = "ORDER_TASK_STATE_SUCCESS"
             /\ orderState \in TerminalOrderStates ) =>
               resp[r] = 200 /\ CallsTo(r, "Get") = <<>>
        /\ CallsTo(r, "Get") # <<>> => orderTask[r].State # "ORDER_TASK_STATE_SUCCESS"
        /\ ( Done(r) /\ resp[r] = 400 /\ Succeeded(r, 3, "Get") ) =>
               /\ OrderSeen(r) \subseteq TerminalOrderStates
               /\ orderTask[r].State # "ORDER_TASK_STATE_SUCCESS"

\* a notification for a SUCCESS payment task of a DONE order has been
\* answered 200 after two calls, none of them the order Get
C27_Witness ==
    \E r \in Reqs :
        /\ Done(r) /\ Succeeded(r, 2, "GetOrderTask")
        /\ orderTask[r].State = "ORDER_TASK_STATE_SUCCESS"
        /\ orderTask[r].TaskType = "ORDER_TASK_TYPE_PAYMENT"
        /\ orderState = "ORDER_STATE_DONE"
        /\ Len(calls[r]) = 2 /\ resp[r] = 200

\* C27 as stated: every notification for a payment task that is SUCCESS and
\* whose order is terminal is answered 200 without an order Get
C27_AsStated ==
    \A r \in Reqs :
        ( /\ Done(r) /\ req[r].body.OrderID = KnownTaskID
          /\ taskAtReceipt[r] = "ORDER_TASK_STATE_SUCCESS"
          /\ orderState \in TerminalOrderStates ) =>
            resp[r] = 200 /\ CallsTo(r, "Get") = <<>>

\* the external call that takes place number i of a request
CallInOrder(i) ==
    CASE i = 1 -> "GetTransactionStatus"
      [] i = 2 -> "GetOrderTask"
      [] i = 3 -> "Get"
      [] OTHER -> "UpdateOrderTask"

(***************************************************************************)
(* C28: within one request the external calls are made in the order        *)
(* provider status lookup, GetOrderTask, order Get, UpdateOrderTask; the   *)
(* first three are made at most once each, and a call is made only after   *)
(* every earlier call has returned without error.                          *)
(***************************************************************************)
C28_CallOrder ==
    \A r \in Reqs :
        /\ \A i \in DOMAIN calls[r] :
              /\ calls[r][i].op = CallInOrder(i)
              /\ i < Len(calls[r]) => ~calls[r][i].err
        /\ \A op \in {"GetTransactionStatus", "GetOrderTask", "Get"} :
              Len(CallsTo(r, op)) <= 1

\* a request has made all four kinds of call, the update twice, and every
\* one of them returned without error
C28_Witness ==
    \E r \in Reqs :
        /\ Done(r) /\ resp[r] = 200
        /\ Len(calls[r]) = 5
        /\ \A i \in DOMAIN calls[r] : ~calls[r][i].err
        /\ Len(UpdateCalls(r)) = 2

(***************************************************************************)
(* C30: under any interleaving of concurrent requests for the same payment *)
(* task, with a task service that applies each write, a task that is       *)
(* SUCCESS is never written FAILED: no step takes the payment task from    *)
(* SUCCESS to FAILED.                                                      *)
(***************************************************************************)
C30_AsStated ==
    [][ PaymentTaskState(tasks) = "ORDER_TASK_STATE_SUCCESS"
            => PaymentTaskState(tasks') # "ORDER_TASK_STATE_FAILED" ]_vars

(***************************************************************************)
(* Vocabulary: the request-level checks of the two inventory callbacks, in *)
(* the order of the claim, each with the condition under which it fails,   *)
(* its status and its message.                                             *)
(***************************************************************************)
ShoptreeChecks(q) ==
    << [fails |-> q.Method # "POST", code |-> 405,
        message |-> "expecting http method post, got: " \o q.Method],
       [fails |-> q.ContentType = "", code |-> 400, message |-> "content type is required"],
       [fails |-> q.ContentType # "application/json", code |-> 400,
        message |-> "content type should be application/json"],
       [fails |-> q.APIKey = "", code |-> 400, message |-> "x client api key is required"],
       [fails |-> q.APIKey # "valid-x-client-api-key", code |-> 400,
        message |-> "invalid x client api key"],
       [fails |-> ~q.decodes, code |-> 400, message |-> "invalid request data"] >>

\* check number i is the first of the checks cs that fails
FirstFailingOf(cs, i) ==
    /\ i \in DOMAIN cs
    /\ cs[i].fails
    /\ \A j \in DOMAIN cs : j < i => ~cs[j].fails

(***************************************************************************)
(* C22: HandleStockUpdate and HandleProductStatusUpdate apply the checks   *)
(* method is POST (405), Content-Type present, Content-Type equals         *)
(* application/json, X-Client-Api-Key present, X-Client-Api-Key equals the *)
(* configured key, body decodes as an array (400 each) in this order.  The *)
(* first check that fails decides the status and the message, the response *)
(* has Content-Type application/json and neither UpdateStock nor           *)
(* UpdateStatus is called.                                                 *)
(***************************************************************************)
C22_ShoptreeCheckOrder ==
    sPc \notin {"idle", "start"} =>
        \A i \in DOMAIN ShoptreeChecks(sReq) :
            FirstFailingOf(ShoptreeChecks(sReq), i) =>
                /\ sPc = "done"
                /\ sWritten = << [StatusCode |-> ShoptreeChecks(sReq)[i].code,
                                  ContentType |-> "application/json",
                                  Message |-> ShoptreeChecks(sReq)[i].message] >>
                /\ sCalls = <<>>

\* a product status callback with a valid method and content type, an
\* invalid key and a body that does not decode has been answered for its key
C22_Witness ==
    /\ sPc = "done"
    /\ sReq.handler = "status" /\ sReq.Method = "POST"
    /\ sReq.ContentType = "application/json"
    /\ sReq.APIKey = "invalid-client-api-key" /\ ~sReq.decodes
    /\ sWritten = << [StatusCode |-> 400, ContentType |-> "application/json",
                      Message |-> "invalid x client api key"] >>
    /\ sCalls = <<>>

(***************************************************************************)
(* Vocabulary: the checks made on one element of a stock update, in the    *)
(* order of the claim.  A null element has none of the fields.             *)
(***************************************************************************)
ItemChecks(e) ==
    LET null == e = <<>> IN
    << [fails |-> null \/ e[1].ReferenceID = "", message |-> "reference id is required"],
       [fails |-> null \/ e[1].ReferenceType = "", message |-> "reference type is required"],
       [fails |-> null \/ e[1].LocationID = "", message |-> "location id is required"],
       [fails |-> null \/ e[1].ProductVariantID = "",
        message |-> "product variant id is required"],
       [fails |-> null \/ e[1].InStock = <<>>, message |-> "in stock is required"],
       [fails |-> null \/ e[1].QuantityChanged = <<>>,
        message |-> "quantity changed is required"],
       [fails |-> ~null /\ e[1].ReferenceType \notin
                    {"internal_order", "purchase_order", "transfer_order", "stock_take",
                     "stock_adjustment", "preparation", "separation", "order",
                     "order_modifier", "order_composite", "order_modifier_composite"},
        message |-> "invalid reference type"],
       [fails |-> ~null /\ e[1].InStock # <<>> /\ e[1].InStock[1].tenths # 0,
        message |-> "invalid in stock value"] >>

ItemValid(e) == LET cs == ItemChecks(e) IN \A i \in DOMAIN cs : ~cs[i].fails

\* the request passed the request-level checks: the handler is in its loop or
\* has left it
LoopEntered ==
    /\ sPc \in {"loop", "done", "panic"}
    /\ LET cs == ShoptreeChecks(sReq) IN \A i \in DOMAIN cs : ~cs[i].fails

\* the handler has stopped at element k: the elements before it were
\* forwarded and their calls returned without error
StoppedAt(k) ==
    /\ sPc \in {"done", "panic"}
    /\ k \in DOMAIN sReq.data
    /\ \A i \in 1..(k - 1) : i \in DOMAIN sCalls /\ ~sCalls[i].err
    /\ Len(sCalls) <= k /\ (Len(sCalls) = k => sCalls[k].err)

\* call number i is the UpdateStock of element number i
ForwardsStock(i) ==
    /\ i \in DOMAIN sReq.data /\ sReq.data[i] # <<>>
    /\ sCalls[i].op = "UpdateStock"
    /\ sCalls[i].arg.StoreId = sReq.data[i][1].LocationID
    /\ sCalls[i].arg.ProductVariantId = sReq.data[i][1].ProductVariantID
    \* the quantity is in_stock (not negative in the requests of the model)
    \* when an int32 holds it, and some int32 when none does
    /\ LET x == sReq.data[i][1].InStock[1] IN
          IF x.e9 < 2 \/ (x.e9 = 2 /\ x.units <= 147483647)
          THEN sCalls[i].arg.Quantity = x.e9 * 1000000000 + x.units
          ELSE sCalls[i].arg.Quantity \in (-2147483647 - 1)..2147483647

\* the property of C23, for every element, or for the objects only
StockForwarding(nullToo) ==
    (sReq.handler = "stock" /\ LoopEntered) =>
        /\ \A i \in DOMAIN sCalls : ForwardsStock(i) /\ ItemValid(sReq.data[i])
        /\ \A k \in DOMAIN sReq.data :
              (StoppedAt(k) /\ (nullToo \/ sReq.data[k] # <<>>) /\ ~ItemValid(sReq.data[k])) =>
                 /\ Len(sCalls) = k - 1
                 /\ \A i \in DOMAIN ItemChecks(sReq.data[k]) :
                       FirstFailingOf(ItemChecks(sReq.data[k]), i) =>
                          sWritten = << [StatusCode |-> 400,
                                         ContentType |-> "application/json",
                                         Message |-> ItemChecks(sReq.data[k])[i].message] >>
        /\ ( /\ sPc \in {"done", "panic"}
             /\ \A k \in DOMAIN sReq.data : ItemValid(sReq.data[k])
             /\ \A i \in DOMAIN sCalls : ~sCalls[i].err ) =>
                 /\ Len(sCalls) = Len(sReq.data)
                 /\ sWritten = << [StatusCode |-> 200, ContentType |-> "application/json",
                                   Message |-> "success"] >>

(***************************************************************************)
(* C23: HandleStockUpdate forwards an element with UpdateStock only if     *)
(* reference_id, reference_type, location_id, product_variant_id, in_stock *)
(* and quantity_changed are present, reference_type is listed and in_stock *)
(* has no fractional part; otherwise the response is 400 with the message  *)
(* of the first of these checks that fails and no UpdateStock call is made *)
(* for the element.  When every element is valid and every call succeeds,  *)
(* one UpdateStock call is made per element, in list order, and the        *)
(* response is 200.  Stated for every element, a null one included.        *)
(***************************************************************************)
C23_AsStated == StockForwarding(TRUE)

\* C23 holds for the elements that are objects
C23_ObjectsOnly == StockForwarding(FALSE)

\* a batch of three valid objects with different in_stock has been forwarded
\* in list order and answered 200
C23_Witness ==
    /\ sReq.handler = "stock" /\ LoopEntered /\ sPc = "done"
    /\ Len(sReq.data) = 3 /\ Len(sCalls) = 3
    /\ \A i \in 1..3 : ForwardsStock(i) /\ ~sCalls[i].err
    /\ sCalls[1].arg.Quantity = 1 /\ sCalls[2].arg.Quantity = -2147483647 - 1
    /\ sWritten = << [StatusCode |-> 200, ContentType |-> "application/json",
                      Message |-> "success"] >>

\* the handler has met a null element after forwarding one object: it has
\* stopped without a response
C23_NullElement ==
    /\ sReq.handler = "stock" /\ sPc = "panic"
    /\ Len(sCalls) = 1 /\ sReq.data[2] = <<>>
    /\ sWritten = <<>>

(***************************************************************************)
(* C25: HandleStockUpdate forwards an element with UpdateStock only if its *)
(* reference type is not "order", and answers 400 when the reference type  *)
(* of the element it has reached is not one of the listed types.           *)
(***************************************************************************)
C25_AsStated ==
    (sReq.handler = "stock" /\ LoopEntered) =>
        /\ \A i \in DOMAIN sCalls : sReq.data[i][1].ReferenceType # "order"
        /\ \A k \in DOMAIN sReq.data :
              ( /\ StoppedAt(k) /\ sReq.data[k] # <<>>
                /\ \A i \in 1..6 : ~ItemChecks(sReq.data[k])[i].fails
                /\ ItemChecks(sReq.data[k])[7].fails ) =>
                    sWritten = << [StatusCode |-> 400, ContentType |-> "application/json",
                                   Message |-> "invalid reference type"] >>

\* what holds instead: only elements of a listed reference type are
\* forwarded, "order" being one of them
C25_ListedOnly ==
    (sReq.handler = "stock" /\ LoopEntered) =>
        \A i \in DOMAIN sCalls : ~ItemChecks(sReq.data[i])[7].fails

\* an element of reference type "order" has been forwarded and answered 200
C25_OrderForwarded ==
    /\ sReq.handler = "stock" /\ LoopEntered /\ sPc = "done"
    /\ Len(sReq.data) = 1 /\ sReq.data[1][1].ReferenceType = "order"
    /\ Len(sCalls) = 1 /\ sCalls[1].op = "UpdateStock" /\ ~sCalls[1].err
    /\ sWritten = << [StatusCode |-> 200, ContentType |-> "application/json",
                      Message |-> "success"] >>

(***************************************************************************)
(* Vocabulary: validation of one element by either handler, and the        *)
(* response that a failing element calls for.                              *)
(***************************************************************************)
StatusItemChecks(e) ==
    LET null == e = <<>> IN
    << [fails |-> null \/ e[1].LocationID = "", message |-> "location id is required"],
       [fails |-> null \/ e[1].ProductVariantID = "",
        message |-> "product variant id is required"],
       [fails |-> null \/ e[1].Enabled = <<>>, message |-> "enabled is required"] >>

ElementChecks(e) == IF sReq.handler = "stock" THEN ItemChecks(e) ELSE StatusItemChecks(e)

ElementValid(e) == LET cs == ElementChecks(e) IN \A i \in DOMAIN cs : ~cs[i].fails

\* the 400 of the first check that element e fails
ValidationResponse(e) ==
    LET cs == ElementChecks(e)
        i == CHOOSE n \in DOMAIN cs : FirstFailingOf(cs, n)
    IN [StatusCode |-> 400, ContentType |-> "application/json", Message |-> cs[i].message]

\* the 500 of a failed call
RPCFailureResponse ==
    [StatusCode |-> 500, ContentType |-> "application/json",
     Message |-> IF sReq.handler = "stock" THEN "failed to update stock"
                 ELSE "failed to update product variant status"]

\* call number i forwards element number i
Forwards(i) ==
    /\ i \in DOMAIN sReq.data /\ sReq.data[i] # <<>>
    /\ sCalls[i].op = (IF sReq.handler = "stock" THEN "UpdateStock" ELSE "UpdateStatus")
    /\ sCalls[i].arg.StoreId = sReq.data[i][1].LocationID
    /\ sCalls[i].arg.ProductVariantId = sReq.data[i][1].ProductVariantID

(***************************************************************************)
(* C29: both handlers process a batch element by element and not           *)
(* atomically.  When element k is the first that fails validation or whose *)
(* call fails, the k-1 elements before it have been forwarded, in order,   *)
(* element k is not forwarded (its call was attempted once when it is the  *)
(* call that failed), no later element is forwarded, no compensating call  *)
(* is made and the only response is the 400 or 500 of element k.  An       *)
(* element fails validation when Validate, the switch on the reference     *)
(* type or ToPB has an error for it; a null element, which has none of the *)
(* required fields, fails the first check.                                 *)
(***************************************************************************)
BatchPrefix(nullToo) ==
    (LoopEntered /\ sPc \in {"done", "panic"}) =>
        \A k \in DOMAIN sReq.data :
            ( /\ nullToo \/ sReq.data[k] # <<>>
              /\ \A j \in 1..(k - 1) :
                    /\ ElementValid(sReq.data[j])
                    /\ j \in DOMAIN sCalls => ~sCalls[j].err
              /\ \/ ~ElementValid(sReq.data[k])
                 \/ k \in DOMAIN sCalls /\ sCalls[k].err ) =>
                /\ \A j \in DOMAIN sCalls : Forwards(j)
                /\ \A j \in 1..(k - 1) : j \in DOMAIN sCalls /\ ~sCalls[j].err
                /\ IF ElementValid(sReq.data[k])
                   THEN Len(sCalls) = k /\ sWritten = << RPCFailureResponse >>
                   ELSE Len(sCalls) = k - 1
                        /\ sWritten = << ValidationResponse(sReq.data[k]) >>

\* C29 as stated: for every batch, whatever its first failing element is
C29_AsStated == BatchPrefix(TRUE)

\* C29 holds when the first failing element is an object
C29_BatchPrefix == BatchPrefix(FALSE)

\* HandleProductStatusUpdate has met a null element after forwarding one
\* object: it has stopped without a response
C29_NullElement ==
    /\ sReq.handler = "status" /\ LoopEntered /\ sPc = "panic"
    /\ Len(sReq.data) >= 2 /\ sReq.data[1] # <<>> /\ sReq.data[2] = <<>>
    /\ Len(sCalls) = 1 /\ Forwards(1) /\ ~sCalls[1].err
    /\ sWritten = <<>>

\* of three valid stock elements the first two have been forwarded and the
\* call for the third has failed: three calls, one response, 500
C29_Witness ==
    /\ sReq.handler = "stock" /\ LoopEntered /\ sPc = "done"
    /\ Len(sReq.data) = 3 /\ \A k \in 1..3 : ElementValid(sReq.data[k])
    /\ Len(sCalls) = 3 /\ ~sCalls[1].err /\ ~sCalls[2].err /\ sCalls[3].err
    /\ sWritten = << RPCFailureResponse >>


(***************************************************************************)
(* C26.  main, graceful shutdown.  The shutdown goroutine has finished     *)
(* when it has run its last statement, close(idleConnsClosed).             *)
(***************************************************************************)
ShutdownFailed == shutdownErr \in {"context deadline exceeded", "listener"}

\* C26: main returns (after "server exited gracefully") only when
\* ListenAndServe returned ErrServerClosed, srv.Shutdown returned without
\* error and idleConnsClosed has been closed; while ListenAndServe has
\* returned ErrServerClosed and the shutdown goroutine has not closed the
\* channel, main has not returned; and an error of ListenAndServe other than
\* ErrServerClosed, or an error of Shutdown (the timeout of shutdownTimeout
\* seconds included, which is the only error while connections are active),
\* ends the process as fatal, main never having returned.
C26_GracefulShutdown ==
    /\ mainPc = "returned" =>
          /\ lasErr = "ErrServerClosed"
          /\ shutdownErr = "nil"
          /\ idleConnsClosed
          /\ sigPc \in {"closed", "finished"}
    /\ (lasErr = "ErrServerClosed" /\ ~idleConnsClosed) => mainPc # "returned"
    /\ lasErr = "other" => mainPc = "fatal"
    /\ ShutdownFailed => (sigPc = "fatal" /\ mainPc # "returned")
    /\ (shutdownErr = "context deadline exceeded") => elapsed = shutdownTimeout
    /\ (sigPc = "shutdown" /\ active > 0 /\ elapsed < shutdownTimeout)
          => ~ENABLED (ShutdownReturns \/ ShutdownFails)

\* main has exited gracefully after a shutdown that waited for a connection
C26_Witness ==
    /\ mainPc = "returned"
    /\ shutdownErr = "nil"
    /\ idleConnsClosed
    /\ elapsed > 0

=============================================================================
